---- MODULE Spec2Model ----
(***************************************************************************)
(* State-machine model of safetywrap: the Result family (Ok, Err), the     *)
(* Option family (Some, Nothing), their static constructors and their      *)
(* combinators.  Containers live on a heap so that object identity, the    *)
(* Nothing singleton and attribute assignment can be expressed.            *)
(***************************************************************************)
EXTENDS Integers, Sequences, FiniteSets, TLC

\* Bounds of the model.
MaxVal == 1
MaxHeap == 2
MaxElems == 2
MaxLen == 3
MaxThreads == 3

VARIABLES
    heap,              \* heap[i]: the container object with identity i
    Nothing_instance,  \* the class attribute Nothing._instance (0 is None)
    excs,              \* excs[i]: the class of the exception object i
    call,              \* the call being made, or made last
    before,            \* the interpreter state when that call was made
    ret,               \* what that call returned or raised
    calls,             \* the callback invocations that call made, in order
    pc,                \* "idle", the method whose loop is running, or "returned"
    iterator,          \* the iterator a running collect pulls from
    ok_vals,           \* Result.collect's local ok_vals
    accumulator,       \* reduce's accumulator in Option.collect
    chain,             \* a chain of method calls being evaluated: what is left of it
    generators,        \* the generators iter() has made, each with where its body stands
    threads,           \* threads[t]: where thread t stands in its call of Nothing(), and its locals
    immutable          \* an object of a class that uses the Immutable mixin

vars == <<heap, Nothing_instance, excs, call, before, ret, calls, pc,
          iterator, ok_vals, accumulator, chain,
          generators, threads, immutable>>

(***************************************************************************)
(* Payload values.  Every payload is a record of the same shape.           *)
(***************************************************************************)
IntV(n) == [kind |-> "int", n |-> n, tup |-> <<>>, s |-> ""]
BoolV(b) == [kind |-> "bool", n |-> IF b THEN 1 ELSE 0, tup |-> <<>>, s |-> ""]
TupV(t) == [kind |-> "tuple", n |-> 0, tup |-> t, s |-> ""]
StrV(s) == [kind |-> "str", n |-> 0, tup |-> <<>>, s |-> s]
\* The exception object with identity id.
ExcV(id) == [kind |-> "exc", n |-> id, tup |-> <<>>, s |-> ""]
\* The class named c, as a value.
ClsV(c) == [kind |-> "class", n |-> 0, tup |-> <<>>, s |-> c]
NoneV == [kind |-> "None", n |-> 0, tup |-> <<>>, s |-> ""]
\* The empty argument list of a callback called without arguments.
NoArg == [kind |-> "noarg", n |-> 0, tup |-> <<>>, s |-> ""]

Values == {IntV(n) : n \in 0..MaxVal}

\* Python exception classes used by the model, with their base class.
ExcBase ==
    [BaseException |-> "object",
     KeyboardInterrupt |-> "BaseException",
     Exception |-> "BaseException",
     ArithmeticError |-> "Exception",
     ZeroDivisionError |-> "ArithmeticError",
     LookupError |-> "Exception",
     KeyError |-> "LookupError",
     RuntimeError |-> "Exception",
     NotImplementedError |-> "RuntimeError",
     TypeError |-> "Exception",
     AttributeError |-> "Exception"]

ExcClasses == DOMAIN ExcBase

RECURSIVE issubclass(_, _)
issubclass(c, d) ==
    IF c = d THEN TRUE
    ELSE IF c = "object" THEN FALSE
    ELSE issubclass(ExcBase[c], d)

(***************************************************************************)
(* What a call returns: a reference to a container, a plain value, or a    *)
(* raised exception.                                                       *)
(***************************************************************************)
NoRet == [kind |-> "none", ref |-> 0, val |-> NoneV, exc |-> "", msg |-> ""]
RetRef(id) == [kind |-> "ref", ref |-> id, val |-> NoneV, exc |-> "", msg |-> ""]
RetVal(v) == [kind |-> "val", ref |-> 0, val |-> v, exc |-> "", msg |-> ""]
Raise(cls, msg) == [kind |-> "raise", ref |-> 0, val |-> NoneV, exc |-> cls, msg |-> msg]
\* An exception object that propagates out of a call.
RaiseObj(id, cls) == [kind |-> "raise", ref |-> 0, val |-> ExcV(id), exc |-> cls, msg |-> ""]

NoCall == [name |-> "", self |-> 0, other |-> NoRet, fn |-> "", fn2 |-> "",
           arg |-> NoneV, msg |-> "", exc_cls |-> ""]

\* The interpreter state the methods read and write.
State == [heap |-> heap, inst |-> Nothing_instance, excs |-> excs]

NoIterator == [items |-> <<>>, pos |-> 0, tail |-> "StopIteration"]

NoState == [heap |-> <<>>, inst |-> 0, excs |-> <<>>]

NoChain == [fns |-> <<>>, args |-> <<>>, pos |-> 0, cur |-> 0]

\* A slot that has not been assigned.
Unset == [kind |-> "unset", n |-> 0, tup |-> <<>>, s |-> ""]

\* The attributes of an object of a class that uses Immutable: the mixin's
\* own _instantiated and those of the class.
ImmutableAttrs == {"_instantiated", "_value", "x"}

\* Such an object as __new__ makes it, with whether Immutable.__init__ has
\* run on it, and both as they were before the last operation on it.
NoObject ==
    [attrs |-> [k \in ImmutableAttrs |-> Unset], ran |-> FALSE,
     attrs_before |-> [k \in ImmutableAttrs |-> Unset], ran_before |-> FALSE]

\* The outcome of running a method: new interpreter state, result, callbacks run.
Out(st, r, cs) == [st |-> st, ret |-> r, calls |-> cs]

Obj(cls, v) == [cls |-> cls, _value |-> v]

Ids == 1..Len(heap)
ResultIds == {i \in Ids : heap[i].cls \in {"Ok", "Err"}}
OptionIds == {i \in Ids : heap[i].cls \in {"Some", "Nothing"}}

(***************************************************************************)
(* Constructors.                                                           *)
(***************************************************************************)
\* Ok.__init__ / Err.__init__ / Some.__init__: a new object holding the value.
Ok_init(st, v) ==
    Out([st EXCEPT !.heap = Append(@, Obj("Ok", v))], RetRef(Len(st.heap) + 1), <<>>)

Err_init(st, v) ==
    Out([st EXCEPT !.heap = Append(@, Obj("Err", v))], RetRef(Len(st.heap) + 1), <<>>)

Some_init(st, v) ==
    Out([st EXCEPT !.heap = Append(@, Obj("Some", v))], RetRef(Len(st.heap) + 1), <<>>)

\* Nothing() as it would be if __init__ set _value on every call.
Nothing_new_reinit(st) ==
    IF st.inst = 0
    THEN Out([st EXCEPT !.heap = Append(@, Obj("Nothing", NoneV)),
                        !.inst = Len(st.heap) + 1],
             RetRef(Len(st.heap) + 1), <<>>)
    ELSE Out([st EXCEPT !.heap[st.inst]._value = NoneV], RetRef(st.inst), <<>>)

\* Nothing.__new__ followed by the __init__ that type.__call__ runs on the
\* instance __new__ returned: the instance is created and initialised only
\* while the class slot is None.
Nothing_new(st) ==
    IF st.inst = 0
    THEN Out([st EXCEPT !.heap = Append(@, Obj("Nothing", NoneV)),
                        !.inst = Len(st.heap) + 1],
             RetRef(Len(st.heap) + 1), <<>>)
    ELSE Out(st, RetRef(st.inst), <<>>)

\* Result(result) as it would be if the base class built an Ok.
Result_init_ok(st, result) == Ok_init(st, result)

\* _Result.__init__, which Result inherits: Result(result) raises.
Result_init(st, result) ==
    Out(st, Raise("NotImplementedError",
                  "Results are only for type hinting and may not be instantiated "
                  \o "directly. Please use Ok() or Err() instead."), <<>>)

\* _Option.__init__, which Option inherits: Option(value) raises.
Option_init(st, value) ==
    Out(st, Raise("NotImplementedError",
                  "Options may not be instantiated directly. Use Some() or "
                  \o "Nothing() instead."), <<>>)

\* Option.of as it would be if it tested the truth of the value.
Option_of_if_not(st, value) ==
    IF value \in {NoneV, IntV(0), BoolV(FALSE), StrV(""), TupV(<<>>)}
    THEN Nothing_new(st)
    ELSE Some_init(st, value)

\* Option.of: Nothing() when the value is None, Some(value) otherwise.
Option_of(st, value) ==
    IF value = NoneV THEN Nothing_new(st) ELSE Some_init(st, value)

(***************************************************************************)
(* str() and repr() of payloads, and Python's == on payloads.              *)
(***************************************************************************)
Digits == <<"0", "1", "2", "3", "4", "5", "6", "7", "8", "9">>

RECURSIVE IntStr(_)
IntStr(n) == IF n < 10 THEN Digits[n + 1] ELSE IntStr(n \div 10) \o Digits[(n % 10) + 1]

RECURSIVE repr(_, _)
RECURSIVE JoinRepr(_, _)
JoinRepr(st, t) ==
    IF Len(t) = 1 THEN repr(st, t[1])
    ELSE repr(st, t[1]) \o ", " \o JoinRepr(st, Tail(t))

repr(st, v) ==
    CASE v.kind = "int" -> IntStr(v.n)
      [] v.kind = "bool" -> IF v.n = 1 THEN "True" ELSE "False"
      [] v.kind = "None" -> "None"
      [] v.kind = "str" -> "'" \o v.s \o "'"
      [] v.kind = "exc" -> st.excs[v.n] \o "()"
      [] v.kind = "class" -> "<class '" \o v.s \o "'>"
      [] v.kind = "tuple" ->
            IF Len(v.tup) = 0 THEN "()"
            ELSE IF Len(v.tup) = 1 THEN "(" \o repr(st, v.tup[1]) \o ",)"
            ELSE "(" \o JoinRepr(st, v.tup) \o ")"

\* str() differs from repr() only for a string and for an exception without
\* arguments.
str(st, v) ==
    IF v.kind = "exc" THEN "" ELSE IF v.kind = "str" THEN v.s ELSE repr(st, v)

RECURSIVE PyEq(_, _)
PyEq(a, b) ==
    CASE a.kind \in {"int", "bool"} -> b.kind \in {"int", "bool"} /\ a.n = b.n
      [] a.kind = "None" -> b.kind = "None"
      [] a.kind = "str" -> b.kind = "str" /\ a.s = b.s
      [] a.kind = "exc" -> b.kind = "exc" /\ a.n = b.n
      [] a.kind = "class" -> b.kind = "class" /\ a.s = b.s
      [] a.kind = "tuple" ->
            /\ b.kind = "tuple"
            /\ Len(a.tup) = Len(b.tup)
            /\ \A i \in 1..Len(a.tup) : PyEq(a.tup[i], b.tup[i])
      [] OTHER -> FALSE

(***************************************************************************)
(* Callbacks a caller may supply.  CallFn runs callback fn on arg and      *)
(* records the invocation.                                                 *)
(***************************************************************************)
Invocation(fn, arg, out) == [fn |-> fn, arg |-> arg, out |-> out]

\* The callback ran on arg with outcome o: log it.
Ran(fn, arg, o) == Out(o.st, o.ret, <<Invocation(fn, arg, o.ret)>>)

succ(v) == IntV((v.n + 1) % (MaxVal + 1))

\* Functions that return a container of the family, as and_then needs.
ResultChainFns == {"Ok", "Err", "ok_succ", "err_succ", "boom"}
OptionChainFns == {"Some", "Nothing", "some_succ", "boom"}

\* The callback lambda v: f(v).and_then(g), by name.
Lambda(f, g) == "lambda v: " \o f \o "(v).and_then(" \o g \o ")"

Lambdas ==
    {Lambda(f, g) : f \in ResultChainFns, g \in ResultChainFns}
        \cup {Lambda(f, g) : f \in OptionChainFns, g \in OptionChainFns}

RECURSIVE Method(_, _, _, _, _)
RECURSIVE CallFn(_, _, _)
CallFn(st, fn, arg) ==
    CASE fn = "succ" ->
            IF arg.kind \in {"int", "bool"} THEN Ran(fn, arg, Out(st, RetVal(succ(arg)), <<>>))
            ELSE Ran(fn, arg, Out(st, Raise("TypeError", ""), <<>>))
      [] fn = "zero" -> Ran(fn, arg, Out(st, RetVal(IntV(0)), <<>>))
      [] fn = "is_zero" -> Ran(fn, arg, Out(st, RetVal(BoolV(PyEq(arg, IntV(0)))), <<>>))
      [] fn = "Ok" -> Ran(fn, arg, Ok_init(st, arg))
      [] fn = "Err" -> Ran(fn, arg, Err_init(st, arg))
      [] fn = "Some" -> Ran(fn, arg, Some_init(st, arg))
      [] fn = "Nothing" -> Ran(fn, arg, Nothing_new(st))
      [] fn = "some_zero" -> Ran(fn, arg, Some_init(st, IntV(0)))
      [] fn = "ok_succ" ->
            IF arg.kind \in {"int", "bool"} THEN Ran(fn, arg, Ok_init(st, succ(arg)))
            ELSE Ran(fn, arg, Out(st, Raise("TypeError", ""), <<>>))
      [] fn = "err_succ" ->
            IF arg.kind \in {"int", "bool"} THEN Ran(fn, arg, Err_init(st, succ(arg)))
            ELSE Ran(fn, arg, Out(st, Raise("TypeError", ""), <<>>))
      [] fn = "some_succ" ->
            IF arg.kind \in {"int", "bool"} THEN Ran(fn, arg, Some_init(st, succ(arg)))
            ELSE Ran(fn, arg, Out(st, Raise("TypeError", ""), <<>>))
      [] fn = "ident" -> Ran(fn, arg, Out(st, RetVal(arg), <<>>))
      [] fn = "_raises" ->
            Ran(fn, arg, Out([st EXCEPT !.excs = Append(@, arg.s)],
                             RaiseObj(Len(st.excs) + 1, arg.s), <<>>))
      [] fn = "unit" -> Ran(fn, arg, Out(st, RetVal(TupV(<<>>)), <<>>))
      [] fn = "captured" -> Ran(fn, arg, Out(st, RetRef(1), <<>>))
      [] fn = "boom" -> Ran(fn, arg, Out(st, Raise("RuntimeError", "boom"), <<>>))
      [] fn \in Lambdas ->
            LET fg == CHOOSE p \in (ResultChainFns \cup OptionChainFns)
                                     \X (ResultChainFns \cup OptionChainFns) :
                          fn = Lambda(p[1], p[2])
                o == CallFn(st, fg[1], arg)
            IN IF o.ret.kind = "raise" THEN Ran(fn, arg, o)
               ELSE Ran(fn, arg, Method(o.st, "and_then", o.ret.ref, fg[2], 0))

\* Callbacks by signature.
ValueFns == {"succ", "zero", "boom"}
Predicates == {"is_zero", "boom"}
ResultFns == {"Ok", "Err", "captured", "boom"}
OptionFns == {"Some", "Nothing", "captured", "boom"}
OptionThunks == {"some_zero", "Nothing", "boom"}
ValueThunks == {"zero", "boom"}

Self(st, self) == st.heap[self]._value

(***************************************************************************)
(* Ok                                                                      *)
(***************************************************************************)
Ok_and_(st, self, res) == Out(st, RetRef(res), <<>>)

Ok_or_(st, self, res) == Out(st, RetRef(self), <<>>)

Ok_and_then(st, self, fn) == CallFn(st, fn, Self(st, self))

Ok_flatmap(st, self, fn) == Ok_and_then(st, self, fn)

\* Ok.or_else as it would be if it ran fn and kept the value.
Ok_or_else_eager(st, self, fn) ==
    Out(CallFn(st, fn, Self(st, self)).st, RetRef(self), CallFn(st, fn, Self(st, self)).calls)

Ok_or_else(st, self, fn) == Out(st, RetRef(self), <<>>)

Ok_err(st, self) == Nothing_new(st)

Ok_ok(st, self) == Some_init(st, Self(st, self))

Ok_expect(st, self, msg, exc_cls) == Out(st, RetVal(Self(st, self)), <<>>)

Ok_raise_if_err(st, self, msg, exc_cls) == Ok_expect(st, self, msg, exc_cls)

Ok_expect_err(st, self, msg, exc_cls) ==
    Out(st, Raise(exc_cls, msg \o ": " \o str(st, Self(st, self))), <<>>)

Ok_is_err(st, self) == Out(st, RetVal(BoolV(FALSE)), <<>>)

Ok_is_ok(st, self) == Out(st, RetVal(BoolV(TRUE)), <<>>)

\* Ok.map as it would be if it stored fn's value in the receiver.
Ok_map_inplace(st, self, fn) ==
    LET o == CallFn(st, fn, Self(st, self)) IN
    IF o.ret.kind = "raise" THEN o
    ELSE Out([o.st EXCEPT !.heap[self]._value = o.ret.val], RetRef(self), o.calls)

Ok_map(st, self, fn) ==
    LET o == CallFn(st, fn, Self(st, self)) IN
    IF o.ret.kind = "raise" THEN o
    ELSE Out(Ok_init(o.st, o.ret.val).st, Ok_init(o.st, o.ret.val).ret, o.calls)

Ok_map_err(st, self, fn) == Out(st, RetRef(self), <<>>)

Ok_unwrap(st, self) == Out(st, RetVal(Self(st, self)), <<>>)

Ok_str(st, self) == "Ok(" \o repr(st, Self(st, self)) \o ")"

Ok_unwrap_err(st, self) ==
    Out(st, Raise("RuntimeError", "Tried to unwrap_err " \o Ok_str(st, self) \o "!"), <<>>)

Ok_unwrap_or(st, self, alternative) == Out(st, RetVal(Self(st, self)), <<>>)

Ok_unwrap_or_else(st, self, fn) == Out(st, RetVal(Self(st, self)), <<>>)

(***************************************************************************)
(* Err                                                                     *)
(***************************************************************************)
\* Err.and_ as it would be if it returned its argument.
Err_and_pass(st, self, res) == Out(st, RetRef(res), <<>>)

Err_and_(st, self, res) == Out(st, RetRef(self), <<>>)

Err_or_(st, self, res) == Out(st, RetRef(res), <<>>)

\* Err.and_then as it would be if it ran fn and kept the error.
Err_and_then_eager(st, self, fn) ==
    Out(CallFn(st, fn, Self(st, self)).st, RetRef(self), CallFn(st, fn, Self(st, self)).calls)

Err_and_then(st, self, fn) == Out(st, RetRef(self), <<>>)

Err_flatmap(st, self, fn) == Err_and_then(st, self, fn)

Err_or_else(st, self, fn) == CallFn(st, fn, Self(st, self))

Err_err(st, self) == Some_init(st, Self(st, self))

\* Err.ok as it would be if it kept the error as a value.
Err_ok_keep(st, self) == Some_init(st, Self(st, self))

Err_ok(st, self) == Nothing_new(st)

Err_expect(st, self, msg, exc_cls) ==
    Out(st, Raise(exc_cls, msg \o ": " \o str(st, Self(st, self))), <<>>)

Err_raise_if_err(st, self, msg, exc_cls) == Err_expect(st, self, msg, exc_cls)

Err_expect_err(st, self, msg, exc_cls) == Out(st, RetVal(Self(st, self)), <<>>)

Err_is_err(st, self) == Out(st, RetVal(BoolV(TRUE)), <<>>)

Err_is_ok(st, self) == Out(st, RetVal(BoolV(FALSE)), <<>>)

\* Err.map as it would be if it wrapped the error in a new Err.
Err_map_rewrap(st, self, fn) == Err_init(st, Self(st, self))

\* Err.map as it would be if it ran fn before looking at the variant.
Err_map_eager(st, self, fn) ==
    Out(st, RetRef(self), CallFn(st, fn, Self(st, self)).calls)

Err_map(st, self, fn) == Out(st, RetRef(self), <<>>)

\* Err.map_err as it would be if it wrapped fn's value in Ok.
Err_map_err_as_ok(st, self, fn) ==
    LET o == CallFn(st, fn, Self(st, self)) IN
    IF o.ret.kind = "raise" THEN o
    ELSE Out(Ok_init(o.st, o.ret.val).st, Ok_init(o.st, o.ret.val).ret, o.calls)

Err_map_err(st, self, fn) ==
    LET o == CallFn(st, fn, Self(st, self)) IN
    IF o.ret.kind = "raise" THEN o
    ELSE Out(Err_init(o.st, o.ret.val).st, Err_init(o.st, o.ret.val).ret, o.calls)

Err_str(st, self) == "Err(" \o repr(st, Self(st, self)) \o ")"

\* Err.unwrap as it would be if it handed out the error.
Err_unwrap_value(st, self) == Out(st, RetVal(Self(st, self)), <<>>)

Err_unwrap(st, self) ==
    Out(st, Raise("RuntimeError", "Tried to unwrap " \o Err_str(st, self) \o "!"), <<>>)

Err_unwrap_err(st, self) == Out(st, RetVal(Self(st, self)), <<>>)

\* Err.unwrap_or as it would be if it returned the Err payload.
Err_unwrap_or_payload(st, self, alternative) == Out(st, RetVal(Self(st, self)), <<>>)

Err_unwrap_or(st, self, alternative) == Out(st, RetVal(alternative), <<>>)

Err_unwrap_or_else(st, self, fn) == CallFn(st, fn, Self(st, self))

(***************************************************************************)
(* Some                                                                    *)
(***************************************************************************)
Some_is_nothing(st, self) == Out(st, RetVal(BoolV(FALSE)), <<>>)

Some_is_some(st, self) == Out(st, RetVal(BoolV(TRUE)), <<>>)

Nothing_is_nothing(st, self) == Out(st, RetVal(BoolV(TRUE)), <<>>)

Nothing_is_some(st, self) == Out(st, RetVal(BoolV(FALSE)), <<>>)

\* alternative.is_nothing() / alternative.is_some(), dispatched on its class.
is_nothing(st, self) ==
    IF st.heap[self].cls = "Some" THEN Some_is_nothing(st, self)
    ELSE Nothing_is_nothing(st, self)

is_some(st, self) ==
    IF st.heap[self].cls = "Some" THEN Some_is_some(st, self)
    ELSE Nothing_is_some(st, self)

Truthy(v) == v.n # 0

Some_and_(st, self, alternative) == Out(st, RetRef(alternative), <<>>)

Some_or_(st, self, alternative) == Out(st, RetRef(self), <<>>)

\* Some.xor as it would be if it did not look at the alternative.
Some_xor_self(st, self, alternative) == Out(st, RetRef(self), <<>>)

Some_xor(st, self, alternative) ==
    IF Truthy(is_nothing(st, alternative).ret.val)
    THEN Out(st, RetRef(self), <<>>)
    ELSE Nothing_new(st)

Some_and_then(st, self, fn) == CallFn(st, fn, Self(st, self))

\* Some.flatmap as it would be if it returned the receiver.
Some_flatmap_self(st, self, fn) == Out(st, RetRef(self), <<>>)

Some_flatmap(st, self, fn) == Some_and_then(st, self, fn)

Some_or_else(st, self, fn) == Out(st, RetRef(self), <<>>)

Some_expect(st, self, msg, exc_cls) == Out(st, RetVal(Self(st, self)), <<>>)

\* Option.raise_if_err first issues a DeprecationWarning through
\* warnings.warn, which returns under the default warning filter.
Some_raise_if_err(st, self, msg, exc_cls) == Some_expect(st, self, msg, exc_cls)

Some_raise_if_nothing(st, self, msg, exc_cls) == Some_expect(st, self, msg, exc_cls)

Some_filter(st, self, predicate) ==
    LET o == CallFn(st, predicate, Self(st, self)) IN
    IF o.ret.kind = "raise" THEN o
    ELSE IF Truthy(o.ret.val) THEN Out(o.st, RetRef(self), o.calls)
    ELSE Out(Nothing_new(o.st).st, Nothing_new(o.st).ret, o.calls)

Some_map(st, self, fn) ==
    LET o == CallFn(st, fn, Self(st, self)) IN
    IF o.ret.kind = "raise" THEN o
    ELSE Out(Some_init(o.st, o.ret.val).st, Some_init(o.st, o.ret.val).ret, o.calls)

Some_map_or(st, self, default, fn) == CallFn(st, fn, Self(st, self))

Some_map_or_else(st, self, default, fn) == CallFn(st, fn, Self(st, self))

Some_ok_or(st, self, err) == Ok_init(st, Self(st, self))

\* Some.ok_or_else as it would be if it computed the error before looking
\* at the variant.
Some_ok_or_else_eager(st, self, err_fn) ==
    Out(Ok_init(st, Self(st, self)).st, Ok_init(st, Self(st, self)).ret,
        CallFn(st, err_fn, NoArg).calls)

Some_ok_or_else(st, self, err_fn) == Ok_init(st, Self(st, self))

Some_unwrap(st, self) == Out(st, RetVal(Self(st, self)), <<>>)

Some_unwrap_or(st, self, default) == Out(st, RetVal(Self(st, self)), <<>>)

Some_unwrap_or_else(st, self, fn) == Out(st, RetVal(Self(st, self)), <<>>)

Some_str(st, self) == "Some(" \o repr(st, Self(st, self)) \o ")"

(***************************************************************************)
(* Nothing                                                                 *)
(***************************************************************************)
Nothing_and_(st, self, alternative) == Out(st, RetRef(self), <<>>)

Nothing_or_(st, self, alternative) == Out(st, RetRef(alternative), <<>>)

Nothing_xor(st, self, alternative) ==
    IF Truthy(is_some(st, alternative).ret.val)
    THEN Out(st, RetRef(alternative), <<>>)
    ELSE Out(st, RetRef(self), <<>>)

\* Nothing.and_then as it would be if it ran fn and stayed Nothing.
Nothing_and_then_eager(st, self, fn) ==
    Out(CallFn(st, fn, NoArg).st, RetRef(self), CallFn(st, fn, NoArg).calls)

Nothing_and_then(st, self, fn) == Out(st, RetRef(self), <<>>)

Nothing_flatmap(st, self, fn) == Nothing_and_then(st, self, fn)

Nothing_or_else(st, self, fn) == CallFn(st, fn, NoArg)

Nothing_expect(st, self, msg, exc_cls) == Out(st, Raise(exc_cls, msg), <<>>)

Nothing_raise_if_err(st, self, msg, exc_cls) == Nothing_expect(st, self, msg, exc_cls)

Nothing_raise_if_nothing(st, self, msg, exc_cls) == Nothing_expect(st, self, msg, exc_cls)

Nothing_filter(st, self, predicate) == Out(st, RetRef(self), <<>>)

Nothing_map(st, self, fn) == Out(st, RetRef(self), <<>>)

Nothing_map_or(st, self, default, fn) == Out(st, RetVal(default), <<>>)

Nothing_map_or_else(st, self, default, fn) == CallFn(st, default, NoArg)

Nothing_ok_or(st, self, err) == Err_init(st, err)

Nothing_ok_or_else(st, self, err_fn) ==
    LET o == CallFn(st, err_fn, NoArg) IN
    IF o.ret.kind = "raise" THEN o
    ELSE Out(Err_init(o.st, o.ret.val).st, Err_init(o.st, o.ret.val).ret, o.calls)

Nothing_unwrap(st, self) ==
    Out(st, Raise("RuntimeError", "Tried to unwrap Nothing"), <<>>)

Nothing_unwrap_or(st, self, default) == Out(st, RetVal(default), <<>>)

Nothing_unwrap_or_else(st, self, fn) == CallFn(st, fn, NoArg)

Nothing_str(st, self) == "Nothing()"

(***************************************************************************)
(* Equality, representation and iteration.                                 *)
(***************************************************************************)
\* other is any Python value: a reference to a container or a plain value.
isinstance(st, other, classes) == other.kind = "ref" /\ st.heap[other.ref].cls \in classes

\* Ok.__eq__ as it would be if it did not ask other.is_ok().
Ok_eq_any_result(st, self, other) ==
    IF ~isinstance(st, other, {"Ok", "Err"}) THEN FALSE
    ELSE PyEq(Self(st, self), Self(st, other.ref))

Ok_eq(st, self, other) ==
    IF ~isinstance(st, other, {"Ok", "Err"}) THEN FALSE
    ELSE IF st.heap[other.ref].cls # "Ok" THEN FALSE
    ELSE PyEq(Self(st, self), Ok_unwrap(st, other.ref).ret.val)

Ok_ne(st, self, other) == ~Ok_eq(st, self, other)

Err_eq(st, self, other) ==
    IF ~isinstance(st, other, {"Ok", "Err"}) THEN FALSE
    ELSE IF st.heap[other.ref].cls # "Err" THEN FALSE
    ELSE PyEq(Self(st, self), Err_unwrap_err(st, other.ref).ret.val)

Err_ne(st, self, other) == ~Err_eq(st, self, other)

Some_eq(st, self, other) ==
    IF ~isinstance(st, other, {"Some"}) THEN FALSE
    ELSE PyEq(Self(st, self), Some_unwrap(st, other.ref).ret.val)

Some_ne(st, self, other) == ~Some_eq(st, self, other)

Nothing_eq(st, self, other) ==
    IF ~isinstance(st, other, {"Nothing"}) THEN FALSE ELSE TRUE

Nothing_ne(st, self, other) == ~Nothing_eq(st, self, other)

\* The items the generator returned by iter() yields.
Ok_iter(st, self) == <<Self(st, self)>>

Err_iter(st, self) == <<>>

Some_iter(st, self) == <<Self(st, self)>>

Nothing_iter(st, self) == <<>>

(***************************************************************************)
(* Actions: one call of a constructor or of a method, on containers the    *)
(* program holds.                                                          *)
(***************************************************************************)
Call(name, self) == [NoCall EXCEPT !.name = name, !.self = self]

Msgs == {"msg"}
\* The exc_cls a caller gives to expect and its like: a class, or "" when it
\* gives none.
ExpectClasses == {"", "RuntimeError", "KeyError"}

\* expect as it would be if its exc_cls defaulted to Exception.
exc_cls_default_exception == "Exception"

\* The default of the keyword argument exc_cls.
exc_cls_default == "RuntimeError"

\* The exc_cls the method body sees.
ExcClsArg(exc_cls) == IF exc_cls = "" THEN exc_cls_default ELSE exc_cls

\* The call c runs to completion with outcome o.
Do(c, o) ==
    /\ pc = "idle"
    /\ Len(o.st.heap) <= MaxHeap
    /\ call' = c
    /\ before' = State
    /\ heap' = o.st.heap
    /\ Nothing_instance' = o.st.inst
    /\ excs' = o.st.excs
    /\ ret' = o.ret
    /\ calls' = o.calls
    /\ pc' = "returned"
    /\ UNCHANGED <<iterator, ok_vals, accumulator, chain, generators, threads, immutable>>

\* The caller takes what the call returned (or handles what it raised) and
\* goes on.
Continue ==
    /\ pc = "returned"
    /\ pc' = "idle"
    /\ call' = NoCall
    /\ before' = NoState
    /\ ret' = NoRet
    /\ calls' = <<>>
    /\ iterator' = NoIterator
    /\ ok_vals' = <<>>
    /\ accumulator' = 0
    /\ chain' = NoChain
    /\ UNCHANGED <<heap, Nothing_instance, excs, generators, threads, immutable>>

SameFamily(a, b) ==
    (heap[a].cls \in {"Ok", "Err"}) = (heap[b].cls \in {"Ok", "Err"})

Ok(v) == Do([Call("Ok", 0) EXCEPT !.arg = v], Ok_init(State, v))

Err(v) == Do([Call("Err", 0) EXCEPT !.arg = v], Err_init(State, v))

Some(v) == Do([Call("Some", 0) EXCEPT !.arg = v], Some_init(State, v))

Nothing == Do(Call("Nothing", 0), Nothing_new(State))

Result(result) == Do([Call("Result", 0) EXCEPT !.arg = result], Result_init(State, result))

Option(value) == Do([Call("Option", 0) EXCEPT !.arg = value], Option_init(State, value))

\* What a caller hands to Option.of: None, falsy values and the other values.
OfValues == Values \cup {NoneV, BoolV(FALSE), StrV(""), TupV(<<>>)}

of(value) == Do([Call("of", 0) EXCEPT !.arg = value], Option_of(State, value))

and_(self, res) ==
    /\ SameFamily(self, res)
    /\ Do([Call("and_", self) EXCEPT !.other = RetRef(res)],
          CASE heap[self].cls = "Ok" -> Ok_and_(State, self, res)
                [] heap[self].cls = "Err" -> Err_and_(State, self, res)
                [] heap[self].cls = "Some" -> Some_and_(State, self, res)
                [] heap[self].cls = "Nothing" -> Nothing_and_(State, self, res))

or_(self, res) ==
    /\ SameFamily(self, res)
    /\ Do([Call("or_", self) EXCEPT !.other = RetRef(res)],
          CASE heap[self].cls = "Ok" -> Ok_or_(State, self, res)
                [] heap[self].cls = "Err" -> Err_or_(State, self, res)
                [] heap[self].cls = "Some" -> Some_or_(State, self, res)
                [] heap[self].cls = "Nothing" -> Nothing_or_(State, self, res))

xor(self, alternative) ==
    /\ self \in OptionIds
    /\ alternative \in OptionIds
    /\ Do([Call("xor", self) EXCEPT !.other = RetRef(alternative)],
          CASE heap[self].cls = "Some" -> Some_xor(State, self, alternative)
                [] heap[self].cls = "Nothing" -> Nothing_xor(State, self, alternative))

and_then(self, fn) ==
    /\ fn \in (IF self \in ResultIds THEN ResultFns ELSE OptionFns)
    /\ Do([Call("and_then", self) EXCEPT !.fn = fn],
          CASE heap[self].cls = "Ok" -> Ok_and_then(State, self, fn)
                [] heap[self].cls = "Err" -> Err_and_then(State, self, fn)
                [] heap[self].cls = "Some" -> Some_and_then(State, self, fn)
                [] heap[self].cls = "Nothing" -> Nothing_and_then(State, self, fn))

flatmap(self, fn) ==
    /\ fn \in (IF self \in ResultIds THEN ResultFns ELSE OptionFns)
    /\ Do([Call("flatmap", self) EXCEPT !.fn = fn],
          CASE heap[self].cls = "Ok" -> Ok_flatmap(State, self, fn)
                [] heap[self].cls = "Err" -> Err_flatmap(State, self, fn)
                [] heap[self].cls = "Some" -> Some_flatmap(State, self, fn)
                [] heap[self].cls = "Nothing" -> Nothing_flatmap(State, self, fn))

or_else(self, fn) ==
    /\ fn \in (IF self \in ResultIds THEN ResultFns ELSE OptionThunks)
    /\ Do([Call("or_else", self) EXCEPT !.fn = fn],
          CASE heap[self].cls = "Ok" -> Ok_or_else(State, self, fn)
                [] heap[self].cls = "Err" -> Err_or_else(State, self, fn)
                [] heap[self].cls = "Some" -> Some_or_else(State, self, fn)
                [] heap[self].cls = "Nothing" -> Nothing_or_else(State, self, fn))

err(self) ==
    /\ self \in ResultIds
    /\ Do(Call("err", self),
          CASE heap[self].cls = "Ok" -> Ok_err(State, self)
                [] heap[self].cls = "Err" -> Err_err(State, self))

ok(self) ==
    /\ self \in ResultIds
    /\ Do(Call("ok", self),
          CASE heap[self].cls = "Ok" -> Ok_ok(State, self)
                [] heap[self].cls = "Err" -> Err_ok(State, self))

expect(self, msg, exc_cls) ==
    /\ msg \in Msgs
    /\ exc_cls \in ExpectClasses
    /\ Do([Call("expect", self) EXCEPT !.msg = msg, !.exc_cls = exc_cls],
          CASE heap[self].cls = "Ok" -> Ok_expect(State, self, msg, ExcClsArg(exc_cls))
                [] heap[self].cls = "Err" -> Err_expect(State, self, msg, ExcClsArg(exc_cls))
                [] heap[self].cls = "Some" -> Some_expect(State, self, msg, ExcClsArg(exc_cls))
                [] heap[self].cls = "Nothing" -> Nothing_expect(State, self, msg, ExcClsArg(exc_cls)))

raise_if_err(self, msg, exc_cls) ==
    /\ msg \in Msgs
    /\ exc_cls \in ExpectClasses
    /\ Do([Call("raise_if_err", self) EXCEPT !.msg = msg, !.exc_cls = exc_cls],
          CASE heap[self].cls = "Ok" -> Ok_raise_if_err(State, self, msg, ExcClsArg(exc_cls))
                [] heap[self].cls = "Err" -> Err_raise_if_err(State, self, msg, ExcClsArg(exc_cls))
                [] heap[self].cls = "Some" -> Some_raise_if_err(State, self, msg, ExcClsArg(exc_cls))
                [] heap[self].cls = "Nothing" -> Nothing_raise_if_err(State, self, msg, ExcClsArg(exc_cls)))

raise_if_nothing(self, msg, exc_cls) ==
    /\ self \in OptionIds
    /\ msg \in Msgs
    /\ exc_cls \in ExpectClasses
    /\ Do([Call("raise_if_nothing", self) EXCEPT !.msg = msg, !.exc_cls = exc_cls],
          CASE heap[self].cls = "Some" -> Some_raise_if_nothing(State, self, msg, ExcClsArg(exc_cls))
                [] heap[self].cls = "Nothing" -> Nothing_raise_if_nothing(State, self, msg, ExcClsArg(exc_cls)))

expect_err(self, msg, exc_cls) ==
    /\ self \in ResultIds
    /\ msg \in Msgs
    /\ exc_cls \in ExpectClasses
    /\ Do([Call("expect_err", self) EXCEPT !.msg = msg, !.exc_cls = exc_cls],
          CASE heap[self].cls = "Ok" -> Ok_expect_err(State, self, msg, ExcClsArg(exc_cls))
                [] heap[self].cls = "Err" -> Err_expect_err(State, self, msg, ExcClsArg(exc_cls)))

is_err(self) ==
    /\ self \in ResultIds
    /\ Do(Call("is_err", self),
          CASE heap[self].cls = "Ok" -> Ok_is_err(State, self)
                [] heap[self].cls = "Err" -> Err_is_err(State, self))

is_ok(self) ==
    /\ self \in ResultIds
    /\ Do(Call("is_ok", self),
          CASE heap[self].cls = "Ok" -> Ok_is_ok(State, self)
                [] heap[self].cls = "Err" -> Err_is_ok(State, self))

filter(self, predicate) ==
    /\ self \in OptionIds
    /\ predicate \in Predicates
    /\ Do([Call("filter", self) EXCEPT !.fn = predicate],
          CASE heap[self].cls = "Some" -> Some_filter(State, self, predicate)
                [] heap[self].cls = "Nothing" -> Nothing_filter(State, self, predicate))

map(self, fn) ==
    /\ fn \in ValueFns
    /\ Do([Call("map", self) EXCEPT !.fn = fn],
          CASE heap[self].cls = "Ok" -> Ok_map(State, self, fn)
                [] heap[self].cls = "Err" -> Err_map(State, self, fn)
                [] heap[self].cls = "Some" -> Some_map(State, self, fn)
                [] heap[self].cls = "Nothing" -> Nothing_map(State, self, fn))

map_err(self, fn) ==
    /\ self \in ResultIds
    /\ fn \in ValueFns
    /\ Do([Call("map_err", self) EXCEPT !.fn = fn],
          CASE heap[self].cls = "Ok" -> Ok_map_err(State, self, fn)
                [] heap[self].cls = "Err" -> Err_map_err(State, self, fn))

map_or(self, default, fn) ==
    /\ self \in OptionIds
    /\ default \in Values
    /\ fn \in ValueFns
    /\ Do([Call("map_or", self) EXCEPT !.arg = default, !.fn = fn],
          CASE heap[self].cls = "Some" -> Some_map_or(State, self, default, fn)
                [] heap[self].cls = "Nothing" -> Nothing_map_or(State, self, default, fn))

map_or_else(self, default, fn) ==
    /\ self \in OptionIds
    /\ default \in ValueThunks
    /\ fn \in ValueFns
    /\ Do([Call("map_or_else", self) EXCEPT !.fn2 = default, !.fn = fn],
          CASE heap[self].cls = "Some" -> Some_map_or_else(State, self, default, fn)
                [] heap[self].cls = "Nothing" -> Nothing_map_or_else(State, self, default, fn))

ok_or(self, e) ==
    /\ self \in OptionIds
    /\ e \in Values
    /\ Do([Call("ok_or", self) EXCEPT !.arg = e],
          CASE heap[self].cls = "Some" -> Some_ok_or(State, self, e)
                [] heap[self].cls = "Nothing" -> Nothing_ok_or(State, self, e))

ok_or_else(self, err_fn) ==
    /\ self \in OptionIds
    /\ err_fn \in ValueThunks
    /\ Do([Call("ok_or_else", self) EXCEPT !.fn = err_fn],
          CASE heap[self].cls = "Some" -> Some_ok_or_else(State, self, err_fn)
                [] heap[self].cls = "Nothing" -> Nothing_ok_or_else(State, self, err_fn))

unwrap(self) ==
    /\ Do(Call("unwrap", self),
          CASE heap[self].cls = "Ok" -> Ok_unwrap(State, self)
                [] heap[self].cls = "Err" -> Err_unwrap(State, self)
                [] heap[self].cls = "Some" -> Some_unwrap(State, self)
                [] heap[self].cls = "Nothing" -> Nothing_unwrap(State, self))

unwrap_err(self) ==
    /\ self \in ResultIds
    /\ Do(Call("unwrap_err", self),
          CASE heap[self].cls = "Ok" -> Ok_unwrap_err(State, self)
                [] heap[self].cls = "Err" -> Err_unwrap_err(State, self))

unwrap_or(self, default) ==
    /\ default \in Values
    /\ Do([Call("unwrap_or", self) EXCEPT !.arg = default],
          CASE heap[self].cls = "Ok" -> Ok_unwrap_or(State, self, default)
                [] heap[self].cls = "Err" -> Err_unwrap_or(State, self, default)
                [] heap[self].cls = "Some" -> Some_unwrap_or(State, self, default)
                [] heap[self].cls = "Nothing" -> Nothing_unwrap_or(State, self, default))

unwrap_or_else(self, fn) ==
    /\ fn \in (IF self \in ResultIds THEN ValueFns ELSE ValueThunks)
    /\ Do([Call("unwrap_or_else", self) EXCEPT !.fn = fn],
          CASE heap[self].cls = "Ok" -> Ok_unwrap_or_else(State, self, fn)
                [] heap[self].cls = "Err" -> Err_unwrap_or_else(State, self, fn)
                [] heap[self].cls = "Some" -> Some_unwrap_or_else(State, self, fn)
                [] heap[self].cls = "Nothing" -> Nothing_unwrap_or_else(State, self, fn))

is_nothing_(self) ==
    /\ self \in OptionIds
    /\ Do(Call("is_nothing", self), is_nothing(State, self))

is_some_(self) ==
    /\ self \in OptionIds
    /\ Do(Call("is_some", self), is_some(State, self))

\* Things a container may be compared with: the containers and plain values.
Operands == {RetRef(i) : i \in Ids} \cup {RetVal(v) : v \in Values}

eq(st, self, other) ==
    CASE st.heap[self].cls = "Ok" -> Ok_eq(st, self, other)
      [] st.heap[self].cls = "Err" -> Err_eq(st, self, other)
      [] st.heap[self].cls = "Some" -> Some_eq(st, self, other)
      [] st.heap[self].cls = "Nothing" -> Nothing_eq(st, self, other)

ne(st, self, other) ==
    CASE st.heap[self].cls = "Ok" -> Ok_ne(st, self, other)
      [] st.heap[self].cls = "Err" -> Err_ne(st, self, other)
      [] st.heap[self].cls = "Some" -> Some_ne(st, self, other)
      [] st.heap[self].cls = "Nothing" -> Nothing_ne(st, self, other)

__str__(st, self) ==
    CASE st.heap[self].cls = "Ok" -> Ok_str(st, self)
      [] st.heap[self].cls = "Err" -> Err_str(st, self)
      [] st.heap[self].cls = "Some" -> Some_str(st, self)
      [] st.heap[self].cls = "Nothing" -> Nothing_str(st, self)

__iter__(st, self) ==
    CASE st.heap[self].cls = "Ok" -> Ok_iter(st, self)
      [] st.heap[self].cls = "Err" -> Err_iter(st, self)
      [] st.heap[self].cls = "Some" -> Some_iter(st, self)
      [] st.heap[self].cls = "Nothing" -> Nothing_iter(st, self)

__eq__(self, other) ==
    Do([Call("__eq__", self) EXCEPT !.other = other],
       Out(State, RetVal(BoolV(eq(State, self, other))), <<>>))

__ne__(self, other) ==
    Do([Call("__ne__", self) EXCEPT !.other = other],
       Out(State, RetVal(BoolV(ne(State, self, other))), <<>>))

\* str(self) and repr(self): the text is returned in ret.msg.
StrRet(text) == [RetVal(NoneV) EXCEPT !.kind = "str", !.msg = text]

str_(self) == Do(Call("__str__", self), Out(State, StrRet(__str__(State, self)), <<>>))

\* list(self.iter()): a fresh generator is made and consumed.
iter(self) ==
    Do(Call("iter", self), Out(State, RetVal(TupV(__iter__(State, self))), <<>>))

\* self._value = v, written by a caller.  None of the four classes defines
\* __setattr__ and _value is a slot, so the assignment is object.__setattr__.
object_setattr(st, self, v) ==
    Out([st EXCEPT !.heap[self]._value = v], RetVal(NoneV), <<>>)

__setattr__(self, v) ==
    Do([Call("__setattr__", self) EXCEPT !.arg = v], object_setattr(State, self, v))

Init ==
    /\ heap = <<>>
    /\ Nothing_instance = 0
    /\ excs = <<>>
    /\ call = NoCall
    /\ before = NoState
    /\ ret = NoRet
    /\ calls = <<>>
    /\ pc = "idle"
    /\ iterator = NoIterator
    /\ ok_vals = <<>>
    /\ accumulator = 0
    /\ chain = NoChain
    /\ threads = <<>>
    /\ immutable = NoObject
    /\ generators = <<>>

Next ==
    \/ pc = "idle" /\ \E v \in Values : Ok(v)
    \/ pc = "idle" /\ \E v \in Values : Err(v)
    \/ pc = "idle" /\ \E v \in Values : Some(v)
    \/ pc = "idle" /\ Nothing
    \/ pc = "idle" /\ \E value \in OfValues : of(value)
    \/ pc = "idle" /\ \E result \in Values : Result(result)
    \/ pc = "idle" /\ \E value \in Values : Option(value)
    \/ pc = "idle" /\ \E self \in Ids, res \in Ids : and_(self, res)
    \/ pc = "idle" /\ \E self \in Ids, res \in Ids : or_(self, res)
    \/ pc = "idle" /\ \E self \in Ids, alternative \in Ids : xor(self, alternative)
    \/ pc = "idle" /\ \E self \in Ids, fn \in ResultFns \cup OptionFns : and_then(self, fn)
    \/ pc = "idle" /\ \E self \in Ids, fn \in ResultFns \cup OptionFns : flatmap(self, fn)
    \/ pc = "idle" /\ \E self \in Ids, fn \in ResultFns \cup OptionThunks : or_else(self, fn)
    \/ pc = "idle" /\ \E self \in Ids : err(self)
    \/ pc = "idle" /\ \E self \in Ids : ok(self)
    \/ pc = "idle" /\ \E self \in Ids, msg \in Msgs, exc_cls \in ExpectClasses : expect(self, msg, exc_cls)
    \/ pc = "idle" /\ \E self \in Ids, msg \in Msgs, exc_cls \in ExpectClasses : raise_if_err(self, msg, exc_cls)
    \/ pc = "idle" /\ \E self \in Ids, msg \in Msgs, exc_cls \in ExpectClasses : raise_if_nothing(self, msg, exc_cls)
    \/ pc = "idle" /\ \E self \in Ids, msg \in Msgs, exc_cls \in ExpectClasses : expect_err(self, msg, exc_cls)
    \/ pc = "idle" /\ \E self \in Ids : is_err(self)
    \/ pc = "idle" /\ \E self \in Ids : is_ok(self)
    \/ pc = "idle" /\ \E self \in Ids : is_nothing_(self)
    \/ pc = "idle" /\ \E self \in Ids : is_some_(self)
    \/ pc = "idle" /\ \E self \in Ids, predicate \in Predicates : filter(self, predicate)
    \/ pc = "idle" /\ \E self \in Ids, fn \in ValueFns : map(self, fn)
    \/ pc = "idle" /\ \E self \in Ids, fn \in ValueFns : map_err(self, fn)
    \/ pc = "idle" /\ \E self \in Ids, default \in Values, fn \in ValueFns : map_or(self, default, fn)
    \/ pc = "idle" /\ \E self \in Ids, default \in ValueThunks, fn \in ValueFns : map_or_else(self, default, fn)
    \/ pc = "idle" /\ \E self \in Ids, e \in Values : ok_or(self, e)
    \/ pc = "idle" /\ \E self \in Ids, err_fn \in ValueThunks : ok_or_else(self, err_fn)
    \/ pc = "idle" /\ \E self \in Ids : unwrap(self)
    \/ pc = "idle" /\ \E self \in Ids : unwrap_err(self)
    \/ pc = "idle" /\ \E self \in Ids, default \in Values : unwrap_or(self, default)
    \/ pc = "idle" /\ \E self \in Ids, fn \in ValueFns \cup ValueThunks : unwrap_or_else(self, fn)
    \/ pc = "idle" /\ \E self \in Ids, other \in Operands : __eq__(self, other)
    \/ pc = "idle" /\ \E self \in Ids, other \in Operands : __ne__(self, other)
    \/ pc = "idle" /\ \E self \in Ids : str_(self)
    \/ pc = "idle" /\ \E self \in Ids : iter(self)
    \/ pc = "idle" /\ \E self \in Ids, v \in Values : __setattr__(self, v)
    \/ Continue

Spec == Init /\ [][Next]_vars

(***************************************************************************)
(* Result.collect and Option.collect.  The iterable is a generator over    *)
(* containers the caller holds; it yields them in order and then either    *)
(* stops or raises.  Each pull is a step, so that what has been pulled     *)
(* when is part of the state.  A behaviour is one call of collect on the   *)
(* containers the caller holds.                                            *)
(***************************************************************************)
Tails == {"StopIteration", "RuntimeError", "KeyError"}

RECURSIVE SeqsUpTo(_, _)
SeqsUpTo(S, n) ==
    IF n = 0 THEN {<<>>}
    ELSE SeqsUpTo(S, n - 1) \cup {Append(q, x) : q \in {r \in SeqsUpTo(S, n - 1) : Len(r) = n - 1}, x \in S}

\* next(iterator): an element, the end of the iteration, or a raise.
next(it) ==
    IF it.pos < Len(it.items)
    THEN [kind |-> "item", item |-> it.items[it.pos + 1], it |-> [it EXCEPT !.pos = @ + 1]]
    ELSE [kind |-> it.tail, item |-> 0, it |-> it]

\* result.is_err(), result.unwrap() and result.map(fn), dispatched on the class.
is_err_(st, self) ==
    IF st.heap[self].cls = "Ok" THEN Ok_is_err(st, self) ELSE Err_is_err(st, self)

unwrap_(st, self) ==
    CASE st.heap[self].cls = "Ok" -> Ok_unwrap(st, self)
      [] st.heap[self].cls = "Err" -> Err_unwrap(st, self)
      [] st.heap[self].cls = "Some" -> Some_unwrap(st, self)
      [] st.heap[self].cls = "Nothing" -> Nothing_unwrap(st, self)

Result_map(st, self, fn) ==
    IF st.heap[self].cls = "Ok" THEN Ok_map(st, self, fn) ELSE Err_map(st, self, fn)

\* The loop body as it would be if it did not return at an Err.
Result_collect_body_no_stop(st, result, vals) ==
    IF Truthy(is_err_(st, result).ret.val)
    THEN [done |-> FALSE, out |-> Out(st, NoRet, <<>>), ok_vals |-> vals]
    ELSE [done |-> FALSE, out |-> Out(st, NoRet, <<>>),
          ok_vals |-> Append(vals, unwrap_(st, result).ret.val)]

\* The loop body as it would be if it put each new value in front.
Result_collect_body_prepend(st, result, vals) ==
    IF Truthy(is_err_(st, result).ret.val)
    THEN [done |-> TRUE, out |-> Result_map(st, result, "unit"), ok_vals |-> vals]
    ELSE [done |-> FALSE, out |-> Out(st, NoRet, <<>>),
          ok_vals |-> <<unwrap_(st, result).ret.val>> \o vals]

\* One turn of the for loop of Result.collect on the pulled element result:
\* done with the mapped Err, or on with one more Ok value.
Result_collect_body(st, result, vals) ==
    IF Truthy(is_err_(st, result).ret.val)
    THEN [done |-> TRUE, out |-> Result_map(st, result, "unit"), ok_vals |-> vals]
    ELSE [done |-> FALSE, out |-> Out(st, NoRet, <<>>),
          ok_vals |-> Append(vals, unwrap_(st, result).ret.val)]

\* The loop of Result.collect ended without meeting an Err.
Result_collect_end(st, vals) == Ok_init(st, TupV(vals))

\* The reducer as it would be if it skipped an element that cannot be
\* unwrapped.
Option_collect_reducer_skip(st, acc, i) ==
    IF acc.cls = "Some" /\ unwrap_(st, i).ret.kind # "raise"
    THEN [raised |-> NoRet,
          acc |-> Obj("Some", TupV(Append(acc._value.tup, unwrap_(st, i).ret.val)))]
    ELSE [raised |-> NoRet, acc |-> acc]

\* The reducer as it would be if an absent element made the accumulator
\* Nothing and the fold went on to the end of the iterable.
Option_collect_reducer_no_stop(st, acc, i) ==
    IF acc.cls = "Some"
    THEN LET u == unwrap_(st, i) IN
         IF u.ret.kind = "raise" THEN [raised |-> NoRet, acc |-> Obj("Nothing", NoneV)]
         ELSE [raised |-> NoRet, acc |-> Obj("Some", TupV(Append(acc._value.tup, u.ret.val)))]
    ELSE [raised |-> NoRet, acc |-> acc]

\* Option.collect's reducer, acc.map(lambda somes: (*somes, i.unwrap())), on
\* the accumulator object acc and the pulled element i.  The accumulators
\* are reduce's own objects: the last one becomes a container of the caller
\* when reduce returns it.
Option_collect_reducer(st, acc, i) ==
    IF acc.cls = "Some"
    THEN LET u == unwrap_(st, i) IN
         IF u.ret.kind = "raise" THEN [raised |-> u.ret, acc |-> acc]
         ELSE [raised |-> NoRet, acc |-> Obj("Some", TupV(Append(acc._value.tup, u.ret.val)))]
    ELSE [raised |-> NoRet, acc |-> acc]

\* What Option.collect does with an exception that leaves reduce.
Option_collect_except(st, exc) ==
    IF issubclass(exc.exc, "RuntimeError") THEN Nothing_new(st)
    ELSE Out(st, exc, <<>>)

\* reduce returned the accumulator.
Option_collect_end(st, acc) ==
    Out([st EXCEPT !.heap = Append(@, acc)], RetRef(Len(st.heap) + 1), <<>>)

\* The loop of a running collect ends with outcome o.
Finish(o) ==
    /\ heap' = o.st.heap
    /\ Nothing_instance' = o.st.inst
    /\ excs' = o.st.excs
    /\ ret' = o.ret
    /\ calls' = calls \o o.calls
    /\ pc' = "returned"

Result_collect(items, tail) ==
    /\ pc = "idle"
    /\ call' = Call("Result.collect", 0)
    /\ before' = State
    /\ iterator' = [items |-> items, pos |-> 0, tail |-> tail]
    /\ ok_vals' = <<>>
    /\ pc' = "Result.collect"
    /\ UNCHANGED <<heap, Nothing_instance, excs, ret, calls, accumulator, chain, generators, threads, immutable>>

Result_collect_next ==
    /\ pc = "Result.collect"
    /\ LET n == next(iterator) IN
       /\ iterator' = n.it
       /\ IF n.kind = "item"
          THEN LET b == Result_collect_body(State, n.item, ok_vals) IN
               /\ ok_vals' = b.ok_vals
               /\ IF b.done THEN Finish(b.out)
                  ELSE UNCHANGED <<heap, Nothing_instance, excs, ret, calls, pc>>
          ELSE /\ UNCHANGED ok_vals
               /\ IF n.kind = "StopIteration"
                  THEN Finish(Result_collect_end(State, ok_vals))
                  ELSE Finish(Out(State, Raise(n.kind, ""), <<>>))
    /\ UNCHANGED <<call, before, accumulator, chain, generators, threads, immutable>>

Option_collect(items, tail) ==
    /\ pc = "idle"
    /\ call' = Call("Option.collect", 0)
    /\ before' = State
    /\ iterator' = [items |-> items, pos |-> 0, tail |-> tail]
    /\ accumulator' = Obj("Some", TupV(<<>>))
    /\ pc' = "Option.collect"
    /\ UNCHANGED <<heap, Nothing_instance, excs, ret, calls, ok_vals, chain, generators, threads, immutable>>

Option_collect_next ==
    /\ pc = "Option.collect"
    /\ LET n == next(iterator) IN
       /\ iterator' = n.it
       /\ IF n.kind = "item"
          THEN LET r == Option_collect_reducer(State, accumulator, n.item) IN
               /\ accumulator' = r.acc
               /\ IF r.raised.kind = "raise"
                  THEN Finish(Option_collect_except(State, r.raised))
                  ELSE UNCHANGED <<heap, Nothing_instance, excs, ret, calls, pc>>
          ELSE /\ UNCHANGED accumulator
               /\ IF n.kind = "StopIteration"
                  THEN Finish(Option_collect_end(State, accumulator))
                  ELSE Finish(Option_collect_except(State, Raise(n.kind, "")))
    /\ UNCHANGED <<call, before, ok_vals, chain, generators, threads, immutable>>

\* The containers a caller of collect may hold: up to MaxElems of them, the
\* Nothing instance at most once.
ElemObjs ==
    {Obj(c, v) : c \in {"Ok", "Err", "Some"}, v \in Values} \cup {Obj("Nothing", NoneV)}

ElemHeaps ==
    {h \in SeqsUpTo(ElemObjs, MaxElems) :
        Cardinality({i \in 1..Len(h) : h[i].cls = "Nothing"}) <= 1}

InstanceIn(h) ==
    IF \E i \in 1..Len(h) : h[i].cls = "Nothing"
    THEN CHOOSE i \in 1..Len(h) : h[i].cls = "Nothing"
    ELSE 0

InitCollect ==
    /\ heap \in ElemHeaps
    /\ Nothing_instance = InstanceIn(heap)
    /\ excs = <<>>
    /\ call = NoCall
    /\ before = NoState
    /\ ret = NoRet
    /\ calls = <<>>
    /\ pc = "idle"
    /\ iterator = NoIterator
    /\ ok_vals = <<>>
    /\ accumulator = 0
    /\ chain = NoChain
    /\ threads = <<>>
    /\ immutable = NoObject
    /\ generators = <<>>

NextCollect ==
    \/ pc = "idle" /\ \E items \in SeqsUpTo(ResultIds, MaxLen), tail \in Tails :
                          Result_collect(items, tail)
    \/ Result_collect_next
    \/ pc = "idle" /\ \E items \in SeqsUpTo(OptionIds, MaxLen), tail \in Tails :
                          Option_collect(items, tail)
    \/ Option_collect_next

SpecCollect == InitCollect /\ [][NextCollect]_vars

(***************************************************************************)
(* Result.of                                                               *)
(***************************************************************************)
\* The default as it would be if it took in every exception.
Result_of_catch_everything == "BaseException"

\* The default of the keyword argument catch.
Result_of_catch_default == "Exception"

\* The except clause as it would be if it compared classes for equality.
Handles_exact(catch, exc_cls) == exc_cls = catch

\* except catch as exc: the clause handles the exception iff it is an
\* instance of catch.
Handles(catch, exc_cls) == issubclass(exc_cls, catch)

Result_of(st, fn, arg, catch) ==
    LET o == CallFn(st, fn, arg) IN
    IF o.ret.kind = "raise"
    THEN IF Handles(catch, o.ret.exc)
         THEN Out(Err_init(o.st, o.ret.val).st, Err_init(o.st, o.ret.val).ret, o.calls)
         ELSE o
    ELSE Out(Ok_init(o.st, o.ret.val).st, Ok_init(o.st, o.ret.val).ret, o.calls)

\* The callables given to Result.of with their argument: one that returns
\* its argument and one that raises the class it is given.
Raisable == {"ZeroDivisionError", "KeyError", "KeyboardInterrupt"}
CatchArgs == {"ZeroDivisionError", "ArithmeticError", "KeyError", "Exception", "BaseException"}
OfCalls ==
    {<<"ident", v>> : v \in Values} \cup {<<"_raises", ClsV(c)>> : c \in Raisable}

\* Result.of(fn, arg, catch=catch)
Result_of_catch(fn, arg, catch) ==
    /\ Len(excs) < MaxHeap
    /\ Do([Call("Result.of", 0) EXCEPT !.fn = fn, !.arg = arg, !.exc_cls = catch],
          Result_of(State, fn, arg, catch))

\* Result.of(fn, arg)
Result_of_default(fn, arg) ==
    /\ Len(excs) < MaxHeap
    /\ Do([Call("Result.of", 0) EXCEPT !.fn = fn, !.arg = arg],
          Result_of(State, fn, arg, Result_of_catch_default))

NextOf ==
    \/ pc = "idle" /\ \E c \in OfCalls, catch \in CatchArgs : Result_of_catch(c[1], c[2], catch)
    \/ pc = "idle" /\ \E c \in OfCalls : Result_of_default(c[1], c[2])
    \/ Continue

SpecOf == Init /\ [][NextOf]_vars

(***************************************************************************)
(* Chains of calls, r.m(a1).m(a2)...m(an): each call is made on what the   *)
(* call before it returned, and an exception ends the evaluation.  Each    *)
(* call is a step.  A behaviour is the evaluation of one chain on          *)
(* containers constructed for it.                                          *)
(***************************************************************************)
\* self.name(fn) or self.name(res), dispatched on the class of self.
Method(st, name, self, fn, res) ==
    LET cls == st.heap[self].cls IN
    CASE name = "and_then" ->
            (CASE cls = "Ok" -> Ok_and_then(st, self, fn)
               [] cls = "Err" -> Err_and_then(st, self, fn)
               [] cls = "Some" -> Some_and_then(st, self, fn)
               [] cls = "Nothing" -> Nothing_and_then(st, self, fn))
      [] name = "flatmap" ->
            (CASE cls = "Ok" -> Ok_flatmap(st, self, fn)
               [] cls = "Err" -> Err_flatmap(st, self, fn)
               [] cls = "Some" -> Some_flatmap(st, self, fn)
               [] cls = "Nothing" -> Nothing_flatmap(st, self, fn))
      [] name = "or_else" ->
            (CASE cls = "Ok" -> Ok_or_else(st, self, fn)
               [] cls = "Err" -> Err_or_else(st, self, fn)
               [] cls = "Some" -> Some_or_else(st, self, fn)
               [] cls = "Nothing" -> Nothing_or_else(st, self, fn))
      [] name = "and_" ->
            (CASE cls = "Ok" -> Ok_and_(st, self, res)
               [] cls = "Err" -> Err_and_(st, self, res)
               [] cls = "Some" -> Some_and_(st, self, res)
               [] cls = "Nothing" -> Nothing_and_(st, self, res))
      [] name = "or_" ->
            (CASE cls = "Ok" -> Ok_or_(st, self, res)
               [] cls = "Err" -> Err_or_(st, self, res)
               [] cls = "Some" -> Some_or_(st, self, res)
               [] cls = "Nothing" -> Nothing_or_(st, self, res))

ResultObjs == {o \in ElemObjs : o.cls \in {"Ok", "Err"}}
OptionObjs == {o \in ElemObjs : o.cls \in {"Some", "Nothing"}}

\* The chain objs[1].name(a1)...(an) starts: its containers have been
\* constructed, objs[1] is the receiver, and the arguments are the functions
\* fns, or the containers objs[2], objs[3], ...
Chain(name, objs, fns) ==
    /\ pc = "idle"
    /\ heap = <<>>
    /\ Len(objs) >= 1
    /\ heap' = objs
    /\ Nothing_instance' = InstanceIn(objs)
    /\ call' = Call(name, 1)
    /\ before' = [heap |-> objs, inst |-> InstanceIn(objs), excs |-> excs]
    /\ chain' = [fns |-> fns, args |-> [i \in 1..(Len(objs) - 1) |-> i + 1],
                 pos |-> 0, cur |-> 1]
    /\ IF Len(fns) + Len(objs) = 1
       THEN ret' = RetRef(1) /\ pc' = "returned"
       ELSE ret' = NoRet /\ pc' = "chain"
    /\ UNCHANGED <<excs, calls, iterator, ok_vals, accumulator, generators, threads, immutable>>

\* The next call of the chain is made on what the last one returned.
Chain_next ==
    /\ pc = "chain"
    /\ LET i == chain.pos + 1
           n == Len(chain.fns) + Len(chain.args)
           o == Method(State, call.name, chain.cur,
                       IF i <= Len(chain.fns) THEN chain.fns[i] ELSE "",
                       IF i <= Len(chain.args) THEN chain.args[i] ELSE 0)
       IN /\ heap' = o.st.heap
          /\ Nothing_instance' = o.st.inst
          /\ excs' = o.st.excs
          /\ calls' = calls \o o.calls
          /\ IF o.ret.kind = "raise" \/ i = n
             THEN ret' = o.ret /\ pc' = "returned" /\ chain' = [chain EXCEPT !.pos = i]
             ELSE /\ chain' = [chain EXCEPT !.pos = i, !.cur = o.ret.ref]
                  /\ UNCHANGED <<ret, pc>>
    /\ UNCHANGED <<call, before, iterator, ok_vals, accumulator, generators, threads, immutable>>

NextChain ==
    \/ pc = "idle" /\ \E r \in ResultObjs, fns \in SeqsUpTo(ResultChainFns, MaxLen) :
                          Len(fns) >= 1 /\ Chain("and_then", <<r>>, fns)
    \/ pc = "idle" /\ \E o \in OptionObjs, fns \in SeqsUpTo(OptionChainFns, MaxLen) :
                          Len(fns) >= 1 /\ Chain("and_then", <<o>>, fns)
    \/ pc = "idle" /\ \E r \in ResultObjs, fns \in SeqsUpTo(ResultChainFns, MaxLen) :
                          Len(fns) >= 1 /\ Chain("or_else", <<r>>, fns)
    \/ pc = "idle" /\ \E rs \in SeqsUpTo(ResultObjs, MaxLen) : Chain("and_", rs, <<>>)
    \/ pc = "idle" /\ \E rs \in SeqsUpTo(ResultObjs, MaxLen) : Chain("or_", rs, <<>>)
    \/ Chain_next

SpecChain == Init /\ [][NextChain]_vars


(***************************************************************************)
(* iter() and the generators it makes.  A generator is an object of its    *)
(* own: the container it was made for, where its body stands, and what it  *)
(* has yielded.  Each next() on it is a step, and the body reads the       *)
(* payload when it runs, not when the generator is made.  A behaviour      *)
(* iterates over one container, whose payload the caller may assign.       *)
(***************************************************************************)
GenRef(g) == [RetRef(0) EXCEPT !.kind = "generator", !.ref = g]

\* iter(self) as it would be if a container handed out one generator, made
\* at the first call.
iter_generator_cached(self) ==
    /\ pc = "idle"
    /\ Len(generators) < MaxLen
    /\ call' = Call("__iter__", self)
    /\ before' = State
    /\ IF generators = <<>>
       THEN /\ generators' = <<[self |-> self, pc |-> "start", yielded |-> <<>>]>>
            /\ ret' = GenRef(1)
       ELSE /\ generators' = generators
            /\ ret' = GenRef(1)
    /\ pc' = "returned"
    /\ UNCHANGED <<heap, Nothing_instance, excs, calls, iterator, ok_vals, accumulator, chain, threads, immutable>>

\* self.iter(), which is iter(self): calling the generator function __iter__
\* makes a new generator whose body has not started.
iter_generator(self) ==
    /\ pc = "idle"
    /\ Len(generators) < MaxLen
    /\ call' = Call("__iter__", self)
    /\ before' = State
    /\ generators' = Append(generators, [self |-> self, pc |-> "start", yielded |-> <<>>])
    /\ ret' = GenRef(Len(generators) + 1)
    /\ pc' = "returned"
    /\ UNCHANGED <<heap, Nothing_instance, excs, calls, iterator, ok_vals, accumulator, chain, threads, immutable>>

\* next(g): the body of __iter__ runs from where it stands to its next yield,
\* or to its end, which raises StopIteration.
generator_next(g) ==
    /\ pc = "idle"
    /\ call' = [Call("__next__", generators[g].self) EXCEPT !.other = GenRef(g)]
    /\ before' = State
    /\ LET items == __iter__(State, generators[g].self) IN
       IF generators[g].pc = "start" /\ items # <<>>
       THEN /\ generators' = [generators EXCEPT ![g].pc = "yielded",
                                                ![g].yielded = Append(@, items[1])]
            /\ ret' = RetVal(items[1])
       ELSE /\ generators' = [generators EXCEPT ![g].pc = "done"]
            /\ ret' = Raise("StopIteration", "")
    /\ pc' = "returned"
    /\ UNCHANGED <<heap, Nothing_instance, excs, calls, iterator, ok_vals, accumulator, chain, threads, immutable>>

InitOne ==
    /\ heap \in {<<o>> : o \in ElemObjs}
    /\ Nothing_instance = InstanceIn(heap)
    /\ excs = <<>>
    /\ call = NoCall
    /\ before = NoState
    /\ ret = NoRet
    /\ calls = <<>>
    /\ pc = "idle"
    /\ iterator = NoIterator
    /\ ok_vals = <<>>
    /\ accumulator = 0
    /\ chain = NoChain
    /\ threads = <<>>
    /\ immutable = NoObject
    /\ generators = <<>>

NextIter ==
    \/ pc = "idle" /\ \E self \in Ids : iter_generator(self)
    \/ pc = "idle" /\ \E g \in 1..Len(generators) : generator_next(g)
    \/ pc = "idle" /\ \E self \in Ids, v \in Values : __setattr__(self, v)
    \/ Continue

SpecIter == InitOne /\ [][NextIter]_vars


(***************************************************************************)
(* Nothing() called by several threads.  Nothing.__new__ takes no lock, so *)
(* the interpreter may switch threads between any two of its statements:   *)
(* each statement is a step of the thread that runs it.  A behaviour       *)
(* starts with no instance and every thread about to call Nothing().       *)
(***************************************************************************)
Threads == 1..MaxThreads

At(t, where) == threads[t].pc = where

Goto(t, where) == threads' = [threads EXCEPT ![t].pc = where]

\* if cls._instance is None:
Nothing_new_check(t) ==
    /\ At(t, "call")
    /\ Goto(t, IF Nothing_instance = 0 THEN "create" ELSE "return")
    /\ UNCHANGED <<heap, Nothing_instance, excs, call, before, ret, calls, pc,
                   iterator, ok_vals, accumulator, chain, generators, immutable>>

\* inst = super().__new__(cls)
Nothing_new_create(t) ==
    /\ At(t, "create")
    /\ heap' = Append(heap, Obj("Nothing", Unset))
    /\ threads' = [threads EXCEPT ![t].pc = "init", ![t].inst = Len(heap) + 1]
    /\ UNCHANGED <<Nothing_instance, excs, call, before, ret, calls, pc,
                   iterator, ok_vals, accumulator, chain, generators, immutable>>

\* cls.__init__(inst), that is: if self._instance is None: self._value = None
Nothing_new_init(t) ==
    /\ At(t, "init")
    /\ heap' = IF Nothing_instance = 0
               THEN [heap EXCEPT ![threads[t].inst]._value = NoneV]
               ELSE heap
    /\ Goto(t, "assign")
    /\ UNCHANGED <<Nothing_instance, excs, call, before, ret, calls, pc,
                   iterator, ok_vals, accumulator, chain, generators, immutable>>

\* cls._instance = inst
Nothing_new_assign(t) ==
    /\ At(t, "assign")
    /\ Nothing_instance' = threads[t].inst
    /\ Goto(t, "return")
    /\ UNCHANGED <<heap, excs, call, before, ret, calls, pc,
                   iterator, ok_vals, accumulator, chain, generators, immutable>>

\* return cls._instance; the __init__ that type.__call__ then runs on the
\* object returned finds the slot set and assigns nothing.
Nothing_new_return(t) ==
    /\ At(t, "return")
    /\ threads' = [threads EXCEPT ![t].pc = "done", ![t].ret = RetRef(Nothing_instance)]
    /\ UNCHANGED <<heap, Nothing_instance, excs, call, before, ret, calls, pc,
                   iterator, ok_vals, accumulator, chain, generators, immutable>>

InitThreads ==
    /\ heap = <<>>
    /\ Nothing_instance = 0
    /\ excs = <<>>
    /\ call = NoCall
    /\ before = NoState
    /\ ret = NoRet
    /\ calls = <<>>
    /\ pc = "idle"
    /\ iterator = NoIterator
    /\ ok_vals = <<>>
    /\ accumulator = 0
    /\ chain = NoChain
    /\ generators = <<>>
    /\ threads = [t \in Threads |-> [pc |-> "call", inst |-> 0, ret |-> NoRet]]
    /\ immutable = NoObject

NextThreads ==
    \/ \E t \in Threads : Nothing_new_check(t)
    \/ \E t \in Threads : Nothing_new_create(t)
    \/ \E t \in Threads : Nothing_new_init(t)
    \/ \E t \in Threads : Nothing_new_assign(t)
    \/ \E t \in Threads : Nothing_new_return(t)

SpecThreads == InitThreads /\ [][NextThreads]_vars


(***************************************************************************)
(* The Immutable mixin (result_types/_mixin.py).  A behaviour is the life  *)
(* of one object of a class that uses it, from __new__ on: the caller may  *)
(* run Immutable.__init__, assign an attribute, or delete one.             *)
(***************************************************************************)
AttrValues == Values \cup {BoolV(TRUE), BoolV(FALSE)}

\* Immutable.__setattr__(self, key, val) on an object with attributes attrs:
\* reading an unset _instantiated raises AttributeError, which is passed
\* over; a true one raises TypeError; otherwise object.__setattr__ assigns.
Immutable_setattr(attrs, key, val) ==
    IF attrs["_instantiated"] # Unset /\ Truthy(attrs["_instantiated"])
    THEN [attrs |-> attrs, ret |-> Raise("TypeError", "Utilizer is immutable.")]
    ELSE [attrs |-> [attrs EXCEPT ![key] = val], ret |-> RetVal(NoneV)]

\* del self.key: Immutable defines no __delattr__, so this is
\* object.__delattr__.
object_delattr(attrs, key) ==
    IF attrs[key] = Unset
    THEN [attrs |-> attrs, ret |-> Raise("AttributeError", key)]
    ELSE [attrs |-> [attrs EXCEPT ![key] = Unset], ret |-> RetVal(NoneV)]

\* An operation on the object ran with outcome o.
Operate(c, o, ran) ==
    /\ call' = c
    /\ ret' = o.ret
    /\ immutable' = [attrs |-> o.attrs, ran |-> ran,
                     attrs_before |-> immutable.attrs, ran_before |-> immutable.ran]
    /\ UNCHANGED <<heap, Nothing_instance, excs, before, calls, pc, iterator, ok_vals,
                   accumulator, chain, generators, threads>>

\* Immutable.__init__(self): self._instantiated = True.
Immutable_init ==
    Operate(Call("Immutable.__init__", 0),
            Immutable_setattr(immutable.attrs, "_instantiated", BoolV(TRUE)), TRUE)

\* self.key = val
Immutable_assign(key, val) ==
    Operate([Call("Immutable.__setattr__", 0) EXCEPT !.msg = key, !.arg = val],
            Immutable_setattr(immutable.attrs, key, val), immutable.ran)

\* del self.key
Immutable_del(key) ==
    Operate([Call("Immutable.__delattr__", 0) EXCEPT !.msg = key],
            object_delattr(immutable.attrs, key), immutable.ran)

InitImmutable ==
    /\ heap = <<>>
    /\ Nothing_instance = 0
    /\ excs = <<>>
    /\ call = NoCall
    /\ before = NoState
    /\ ret = NoRet
    /\ calls = <<>>
    /\ pc = "idle"
    /\ iterator = NoIterator
    /\ ok_vals = <<>>
    /\ accumulator = 0
    /\ chain = NoChain
    /\ generators = <<>>
    /\ threads = <<>>
    /\ immutable = NoObject

NextImmutable ==
    \/ Immutable_init
    \/ \E key \in ImmutableAttrs, val \in AttrValues : Immutable_assign(key, val)
    \/ \E key \in ImmutableAttrs : Immutable_del(key)

SpecImmutable == InitImmutable /\ [][NextImmutable]_vars


(***************************************************************************)
(* Equations between calls.  Both sides of an equation are evaluated, the  *)
(* left one first, on the one container held; what the left side gave is   *)
(* kept in ret and what the right side gave in call.other.  A behaviour    *)
(* evaluates one equation.                                                 *)
(***************************************************************************)
Law(c, lhs, rhs) ==
    /\ pc = "idle"
    /\ call' = [c EXCEPT !.other = rhs.ret]
    /\ before' = State
    /\ heap' = rhs.st.heap
    /\ Nothing_instance' = rhs.st.inst
    /\ excs' = rhs.st.excs
    /\ ret' = lhs.ret
    /\ calls' = lhs.calls \o rhs.calls
    /\ pc' = "returned"
    /\ UNCHANGED <<iterator, ok_vals, accumulator, chain, generators, threads, immutable>>

FamilyFns(self) ==
    IF heap[self].cls \in {"Ok", "Err"} THEN ResultChainFns ELSE OptionChainFns

\* Ok(x).and_then(f) against f(x), and the same for Some(x).
left_identity(self, f) ==
    /\ heap[self].cls \in {"Ok", "Some"}
    /\ f \in FamilyFns(self)
    /\ LET lhs == Method(State, "and_then", self, f, 0)
           rhs == CallFn(lhs.st, f, Self(State, self))
       IN Law([Call("left_identity", self) EXCEPT !.fn = f], lhs, rhs)

\* r.and_then(Ok) against r, and o.and_then(Some) against o.
right_identity(self) ==
    LET unit == IF heap[self].cls \in {"Ok", "Err"} THEN "Ok" ELSE "Some"
        lhs == Method(State, "and_then", self, unit, 0)
    IN Law([Call("right_identity", self) EXCEPT !.fn = unit], lhs, Out(lhs.st, RetRef(self), <<>>))

\* r.and_then(f).and_then(g) against r.and_then(lambda v: f(v).and_then(g)).
associativity(self, f, g) ==
    /\ f \in FamilyFns(self)
    /\ g \in FamilyFns(self)
    /\ LET first == Method(State, "and_then", self, f, 0)
           lhs == IF first.ret.kind = "raise" THEN first
                  ELSE Method(first.st, "and_then", first.ret.ref, g, 0)
           rhs == Method(lhs.st, "and_then", self, Lambda(f, g), 0)
       IN Law([Call("associativity", self) EXCEPT !.fn = f, !.fn2 = g], lhs, rhs)

\* r.flatmap(f) against r.and_then(f).
flatmap_and_then(self, f) ==
    /\ f \in FamilyFns(self)
    /\ LET lhs == Method(State, "flatmap", self, f, 0)
           rhs == Method(lhs.st, "and_then", self, f, 0)
       IN Law([Call("flatmap_and_then", self) EXCEPT !.fn = f], lhs, rhs)

NextLaws ==
    \/ \E self \in Ids, f \in ResultChainFns \cup OptionChainFns : left_identity(self, f)
    \/ \E self \in Ids : right_identity(self)
    \/ \E self \in Ids, f \in ResultChainFns \cup OptionChainFns,
          g \in ResultChainFns \cup OptionChainFns : associativity(self, f, g)
    \/ \E self \in Ids, f \in ResultChainFns \cup OptionChainFns : flatmap_and_then(self, f)

SpecLaws == InitOne /\ [][NextLaws]_vars

(***************************************************************************)
(* Properties of the method calls (specification Spec).                    *)
(***************************************************************************)
Returned(names) == pc = "returned" /\ call.name \in names

\* The receiver as it was when the call was made.
Receiver == before.heap[call.self]

WasResult == call.self \in 1..Len(before.heap) /\ Receiver.cls \in {"Ok", "Err"}
WasOption == call.self \in 1..Len(before.heap) /\ Receiver.cls \in {"Some", "Nothing"}

\* The call ran exactly one callback: fn, on arg.
InvokedOnceWith(fn, arg) ==
    Len(calls) = 1 /\ calls[1].fn = fn /\ calls[1].arg = arg

OptionCallbackOnce ==
    /\ (Returned({"and_then", "map", "filter", "map_or", "map_or_else"})
        /\ WasOption /\ Receiver.cls = "Some") =>
          InvokedOnceWith(call.fn, Receiver._value)
    /\ (Returned({"or_else", "unwrap_or_else", "ok_or_else"})
        /\ WasOption /\ Receiver.cls = "Some") =>
          calls = <<>>
    /\ (Returned({"and_then", "map", "filter", "map_or"})
        /\ WasOption /\ Receiver.cls = "Nothing") =>
          calls = <<>>
    /\ (Returned({"or_else", "unwrap_or_else", "ok_or_else"})
        /\ WasOption /\ Receiver.cls = "Nothing") =>
          InvokedOnceWith(call.fn, NoArg)
    /\ (Returned({"map_or_else"})
        /\ WasOption /\ Receiver.cls = "Nothing") =>
          InvokedOnceWith(call.fn2, NoArg)

\* ok_or_else was called on a Some and returned an Ok.
OptionCallbackOnceWitness ==
    /\ Returned({"ok_or_else"})
    /\ Receiver.cls = "Some"
    /\ ret.kind = "ref"
    /\ heap[ret.ref] = Obj("Ok", Receiver._value)

\* C9: an assignment to the payload attribute of a constructed container
\* raises and leaves the payload as it was.
SetattrRaises ==
    Returned({"__setattr__"}) => (ret.kind = "raise" /\ heap = before.heap)

\* The methods of the public interface (neither constructors nor attribute
\* assignment).
PublicOps ==
    {"and_", "or_", "xor", "and_then", "flatmap", "or_else", "err", "ok",
     "expect", "raise_if_err", "raise_if_nothing", "expect_err", "is_err",
     "is_ok", "is_nothing", "is_some", "filter", "map", "map_err", "map_or",
     "map_or_else", "ok_or", "ok_or_else", "unwrap", "unwrap_err",
     "unwrap_or", "unwrap_or_else", "__eq__", "__ne__", "__str__", "iter"}

\* Every container that existed when the call was made is as it was.
Untouched ==
    \A i \in 1..Len(before.heap) : i <= Len(heap) /\ heap[i] = before.heap[i]

\* The containers passed to the call: the receiver and a container argument.
PassedIn ==
    {call.self} \cup (IF call.other.kind = "ref" THEN {call.other.ref} ELSE {})

NewlyConstructed(id) == id > Len(before.heap) /\ id <= Len(heap)

Items == iterator.items

\* The container the iterable yields at position i, as it was at the call.
Elem(i) == before.heap[Items[i]]

\* The position of the first element of class cls, 0 if there is none.
First(cls) ==
    IF \E i \in 1..Len(Items) : Elem(i).cls = cls
    THEN CHOOSE i \in 1..Len(Items) :
            Elem(i).cls = cls /\ \A j \in 1..(i - 1) : Elem(j).cls # cls
    ELSE 0

Payloads == [i \in 1..Len(Items) |-> Elem(i)._value]

\* C1: Result.collect pulls the elements one at a time and in order, and
\* none after the first Err: once it has returned it has pulled exactly the
\* elements up to and including the first Err, or all of them when there is
\* no Err, and at no time has it pulled more.
CollectStopsAtFirstErr ==
    call.name = "Result.collect" =>
        /\ First("Err") # 0 => iterator.pos <= First("Err")
        /\ (pc = "returned" /\ First("Err") # 0) => iterator.pos = First("Err")
        /\ (pc = "returned" /\ First("Err") = 0) => iterator.pos = Len(Items)

\* Result.collect returned from an iterable with an Ok, then an Err, then
\* one more element.
CollectStopsAtFirstErrWitness ==
    /\ Returned({"Result.collect"})
    /\ Len(Items) = 3
    /\ First("Err") = 2
    /\ iterator.pos = 2

\* C2: when every element is Ok and the iterable ends, Result.collect
\* returns Ok of the payloads in iteration order (as many as there are
\* elements; the empty sequence for the empty iterable).
CollectAllOk ==
    (Returned({"Result.collect"}) /\ First("Err") = 0 /\ iterator.tail = "StopIteration") =>
        /\ ret.kind = "ref"
        /\ heap[ret.ref].cls = "Ok"
        /\ heap[ret.ref]._value.kind = "tuple"
        /\ heap[ret.ref]._value.tup = Payloads

\* Two Ok with different payloads were collected.
CollectAllOkWitness ==
    /\ Returned({"Result.collect"})
    /\ First("Err") = 0
    /\ iterator.tail = "StopIteration"
    /\ Len(Items) = 2
    /\ Elem(1)._value # Elem(2)._value
    /\ ret.kind = "ref"

\* C3: when the iterable contains an Err, Result.collect returns the first
\* Err itself, with the payload it had, whatever Ok came before it.
CollectReturnsFirstErr ==
    (Returned({"Result.collect"}) /\ First("Err") # 0) =>
        /\ ret = RetRef(Items[First("Err")])
        /\ heap[ret.ref] = Elem(First("Err"))
        /\ heap = before.heap

\* An Ok and then an Err were collected, and the Err came back.
CollectReturnsFirstErrWitness ==
    /\ Returned({"Result.collect"})
    /\ Len(Items) = 2
    /\ Elem(1).cls = "Ok"
    /\ Elem(2).cls = "Err"
    /\ ret = RetRef(Items[2])

\* C4: for an iterable of Options that ends, Option.collect returns Some of
\* all the payloads in iteration order when every element is Some (Some of
\* the empty sequence for the empty iterable) and Nothing when an element is
\* Nothing.
OptionCollectAllOrNothing ==
    (Returned({"Option.collect"}) /\ iterator.tail = "StopIteration") =>
        /\ ret.kind = "ref"
        /\ IF First("Nothing") = 0
           THEN /\ heap[ret.ref].cls = "Some"
                /\ heap[ret.ref]._value.kind = "tuple"
                /\ heap[ret.ref]._value.tup = Payloads
           ELSE heap[ret.ref].cls = "Nothing"

\* A Some and then Nothing were collected.
OptionCollectAllOrNothingWitness ==
    /\ Returned({"Option.collect"})
    /\ iterator.tail = "StopIteration"
    /\ Len(Items) = 2
    /\ First("Nothing") = 2
    /\ ret.kind = "ref"

(***************************************************************************)
(* Properties of Result.of (specification SpecOf).                         *)
(***************************************************************************)
\* What the wrapped function did.
FnOutcome == calls[1].out

\* C7: Result.of(fn, arg, catch=C) calls fn exactly once, with arg, and
\* returns Ok of what fn returned, or Err of the very exception fn raised
\* when that is an instance of C; an exception that is not an instance of C
\* reaches the caller and no container is made.
ResultOfWrapsOrPropagates ==
    (Returned({"Result.of"}) /\ call.exc_cls # "") =>
        /\ InvokedOnceWith(call.fn, call.arg)
        /\ FnOutcome.kind = "val" =>
              ret.kind = "ref" /\ heap[ret.ref] = Obj("Ok", FnOutcome.val)
        /\ (FnOutcome.kind = "raise" /\ issubclass(FnOutcome.exc, call.exc_cls)) =>
              ret.kind = "ref" /\ heap[ret.ref] = Obj("Err", FnOutcome.val)
        /\ (FnOutcome.kind = "raise" /\ ~issubclass(FnOutcome.exc, call.exc_cls)) =>
              ret = FnOutcome /\ heap = before.heap

\* fn raised ZeroDivisionError under catch=KeyError, and it reached the caller.
ResultOfWrapsOrPropagatesWitness ==
    /\ Returned({"Result.of"})
    /\ call.exc_cls = "KeyError"
    /\ Len(calls) = 1
    /\ FnOutcome.exc = "ZeroDivisionError"
    /\ ret.kind = "raise"

\* C8 as stated: without catch, every exception fn raises is returned as Err
\* and none reaches the caller.
ResultOfDefaultCatchesAll ==
    (Returned({"Result.of"}) /\ call.exc_cls = "" /\ FnOutcome.kind = "raise") =>
        ret.kind = "ref" /\ heap[ret.ref] = Obj("Err", FnOutcome.val)

\* C8 as amended: without catch, an exception fn raises is returned as Err
\* when it is an instance of Exception; one that is not (KeyboardInterrupt)
\* reaches the caller.
ResultOfDefaultCatchesException ==
    (Returned({"Result.of"}) /\ call.exc_cls = "" /\ FnOutcome.kind = "raise") =>
        IF issubclass(FnOutcome.exc, "Exception")
        THEN ret.kind = "ref" /\ heap[ret.ref] = Obj("Err", FnOutcome.val)
        ELSE ret = FnOutcome /\ heap = before.heap

\* Without catch, fn raised KeyboardInterrupt and it reached the caller.
ResultOfDefaultCatchesExceptionWitness ==
    /\ Returned({"Result.of"})
    /\ call.exc_cls = ""
    /\ Len(calls) = 1
    /\ FnOutcome.exc = "KeyboardInterrupt"
    /\ ret.kind = "raise"

(***************************************************************************)
(* Properties of chains of calls (specification SpecChain).                *)
(***************************************************************************)
\* The container the i-th invoked function returned ("raise" if it raised).
OutCls(i) ==
    IF calls[i].out.kind = "ref" THEN heap[calls[i].out.ref].cls ELSE "raise"

\* The container the i-th invoked function was called on behalf of: the
\* receiver of the chain, or what the function before it returned.
Prev(i) == IF i = 1 THEN Receiver ELSE heap[calls[i - 1].out.ref]

\* In a chain of calls that pass on the variant go: the functions invoked so
\* far are the first functions of the chain, in order, each invoked because
\* the container before it was a go and with that container's payload; and
\* once the chain is evaluated, its value is the receiver if that was not a
\* go, else the first container returned that is not a go (or the exception
\* a function raised), else what the last function returned.
ShortCircuits(go) ==
    LET k == Len(calls)
        n == Len(chain.fns)
    IN /\ k <= n
       /\ \A i \in 1..k :
             /\ calls[i].fn = chain.fns[i]
             /\ i > 1 => calls[i - 1].out.kind = "ref"
             /\ Prev(i).cls = go
             /\ calls[i].arg = Prev(i)._value
       /\ pc = "returned" =>
             IF Receiver.cls # go THEN k = 0 /\ ret = RetRef(call.self)
             ELSE IF k < n THEN OutCls(k) # go /\ ret = calls[k].out
             ELSE ret = calls[n].out

\* C11: in a chain of and_then over Results the functions run in order, each
\* on the Ok payload of the step before; the first Err (the receiver or what
\* a function returned) ends the invocations and is the value of the chain,
\* and without an Err the value is what the last function returned.
ResultAndThenChain ==
    (call.name = "and_then" /\ chain.fns # <<>> /\ Receiver.cls \in {"Ok", "Err"}) =>
        ShortCircuits("Ok")

\* Ok(0).and_then(ok_succ).and_then(Err).and_then(f3): two functions ran and
\* the Err of the second is the value.
ResultAndThenChainWitness ==
    /\ pc = "returned"
    /\ call.name = "and_then"
    /\ Receiver = Obj("Ok", IntV(0))
    /\ Len(chain.fns) = 3
    /\ Len(calls) = 2
    /\ calls[1].fn = "ok_succ"
    /\ ret.kind = "ref"
    /\ heap[ret.ref] = Obj("Err", IntV(1))

\* C12: in a chain of and_then over Options the functions run in order, each
\* on the payload of the Some of the step before; the first Nothing ends the
\* invocations and the chain is Nothing, and otherwise its value is what the
\* last function returned.
OptionAndThenChain ==
    (call.name = "and_then" /\ chain.fns # <<>> /\ Receiver.cls \in {"Some", "Nothing"}) =>
        /\ ShortCircuits("Some")
        /\ (pc = "returned" /\ Len(calls) < Len(chain.fns) /\ ret.kind = "ref") =>
              heap[ret.ref].cls = "Nothing"

\* Some(0).and_then(some_succ).and_then(Nothing).and_then(f3): two functions
\* ran and the chain is Nothing.
OptionAndThenChainWitness ==
    /\ pc = "returned"
    /\ call.name = "and_then"
    /\ Receiver = Obj("Some", IntV(0))
    /\ Len(chain.fns) = 3
    /\ Len(calls) = 2
    /\ calls[2].arg = IntV(1)
    /\ ret = RetRef(Nothing_instance)

FirstOrLast(cls) ==
    IF \E i \in 1..Len(before.heap) : before.heap[i].cls = cls
    THEN CHOOSE i \in 1..Len(before.heap) :
            before.heap[i].cls = cls /\ \A j \in 1..(i - 1) : before.heap[j].cls # cls
    ELSE Len(before.heap)

\* C14: r1.and_(r2)...and_(rn) is the first Err of r1..rn, or rn when there
\* is no Err; r1.or_(r2)...or_(rn) is the first Ok of r1..rn, or rn when
\* there is no Ok.  No container is made or changed.
FoldAndOr ==
    /\ (pc = "returned" /\ call.name = "and_") =>
          ret = RetRef(FirstOrLast("Err")) /\ heap = before.heap
    /\ (pc = "returned" /\ call.name = "or_") =>
          ret = RetRef(FirstOrLast("Ok")) /\ heap = before.heap

\* Ok(0).and_(Err(1)).and_(Ok(1)) is the Err.
FoldAndOrWitness ==
    /\ pc = "returned"
    /\ call.name = "and_"
    /\ before.heap = <<Obj("Ok", IntV(0)), Obj("Err", IntV(1)), Obj("Ok", IntV(1))>>
    /\ ret = RetRef(2)

(***************************************************************************)
(* Further properties of the method calls (specification Spec).            *)
(***************************************************************************)
\* The container passed as argument, as it was when the call was made.
Other == before.heap[call.other.ref]

\* C15: a.xor(b) is Some exactly when one of a, b is Some and the other is
\* Nothing, and then it is that Some; when both are Some or both Nothing it
\* is Nothing; and it equals b.xor(a).
XorExactlyOne ==
    Returned({"xor"}) =>
        /\ ret.kind = "ref"
        /\ (heap[ret.ref].cls = "Some") <=> ((Receiver.cls = "Some") # (Other.cls = "Some"))
        /\ (Receiver.cls = "Some" /\ Other.cls = "Nothing") => ret = RetRef(call.self)
        /\ (Receiver.cls = "Nothing" /\ Other.cls = "Some") => ret = call.other
        /\ (Receiver.cls = Other.cls) => heap[ret.ref].cls = "Nothing"
        /\ LET ba == IF heap[call.other.ref].cls = "Some"
                     THEN Some_xor(State, call.other.ref, call.self)
                     ELSE Nothing_xor(State, call.other.ref, call.self)
           IN eq(ba.st, ret.ref, ba.ret)

\* Nothing().xor(Some(v)) returned the Some.
XorExactlyOneWitness ==
    /\ Returned({"xor"})
    /\ Receiver.cls = "Nothing"
    /\ Other.cls = "Some"
    /\ ret = call.other

\* The container id compares equal (==) to a newly constructed cls(v).
EqualsNew(id, cls, v) ==
    LET new == CASE cls = "Ok" -> Ok_init(State, v)
                 [] cls = "Err" -> Err_init(State, v)
                 [] cls = "Some" -> Some_init(State, v)
                 [] cls = "Nothing" -> Nothing_new(State)
    IN eq(new.st, id, new.ret)

\* What C16 says of the values of the conversions: Ok(x).ok() == Some(x),
\* Err(e).ok() == Nothing(), Ok(x).err() == Nothing(), Err(e).err() ==
\* Some(e), Some(x).ok_or(e).ok() == Some(x), Nothing().ok_or(e) == Err(e),
\* Nothing().ok_or(e).err() == Some(e), and ok_or_else the same with e
\* what err_fn returned.
ConversionValues ==
    /\ (Returned({"ok"}) /\ Receiver.cls = "Ok") => EqualsNew(ret.ref, "Some", Receiver._value)
    /\ (Returned({"ok"}) /\ Receiver.cls = "Err") => EqualsNew(ret.ref, "Nothing", NoneV)
    /\ (Returned({"err"}) /\ Receiver.cls = "Ok") => EqualsNew(ret.ref, "Nothing", NoneV)
    /\ (Returned({"err"}) /\ Receiver.cls = "Err") => EqualsNew(ret.ref, "Some", Receiver._value)
    /\ (Returned({"ok_or", "ok_or_else"}) /\ Receiver.cls = "Some") =>
          /\ ret.kind = "ref"
          /\ EqualsNew(ret.ref, "Ok", Receiver._value)
          /\ LET back == Ok_ok(State, ret.ref) IN eq(back.st, back.ret.ref, RetRef(call.self))
    /\ (Returned({"ok_or"}) /\ Receiver.cls = "Nothing") =>
          /\ ret.kind = "ref"
          /\ EqualsNew(ret.ref, "Err", call.arg)
          /\ LET back == Err_err(State, ret.ref) IN
                heap[ret.ref].cls = "Err" /\ back.st.heap[back.ret.ref] = Obj("Some", call.arg)
    /\ (Returned({"ok_or_else"}) /\ Receiver.cls = "Nothing" /\ ret.kind = "ref") =>
          EqualsNew(ret.ref, "Err", calls[1].out.val)

\* C16 as stated: the conversions have these values and none of ok, err,
\* ok_or, ok_or_else raises.
ConversionsNeverRaise ==
    /\ ConversionValues
    /\ Returned({"ok", "err", "ok_or", "ok_or_else"}) => ret.kind = "ref"

\* C16 as amended: the conversions have these values; ok, err and ok_or
\* never raise, and ok_or_else raises only on Nothing, the exception its
\* err_fn raised.
ConversionsRaiseOnlyFromErrFn ==
    /\ ConversionValues
    /\ Returned({"ok", "err", "ok_or"}) => ret.kind = "ref"
    /\ Returned({"ok_or_else"}) =>
          \/ ret.kind = "ref"
          \/ /\ Receiver.cls = "Nothing"
             /\ Len(calls) = 1
             /\ calls[1].fn = call.fn
             /\ ret = calls[1].out
             /\ heap = before.heap

\* Nothing().ok_or_else(err_fn) with an err_fn that raises.
ConversionsRaiseOnlyFromErrFnWitness ==
    /\ Returned({"ok_or_else"})
    /\ Receiver.cls = "Nothing"
    /\ ret.kind = "raise"

\* The receiver and the other operand are containers of the same variant
\* with equal payloads.
SameVariantAndPayload ==
    /\ call.other.kind = "ref"
    /\ Other.cls = Receiver.cls
    /\ Receiver.cls = "Nothing" \/ PyEq(Receiver._value, Other._value)

\* C17: a == b is true exactly when a and b are containers of the same
\* variant with equal payloads (Nothing equals Nothing only); with a b that
\* is no container it is False; it never raises; and a != b is its negation.
EqualityStructural ==
    /\ Returned({"__eq__"}) => ret = RetVal(BoolV(SameVariantAndPayload))
    /\ Returned({"__ne__"}) =>
          /\ ret = RetVal(BoolV(~SameVariantAndPayload))
          /\ ret.val = BoolV(~eq(State, call.self, call.other))
    /\ Returned({"__eq__", "__ne__"}) => heap = before.heap

\* Two distinct containers of the same variant and payload compared equal.
EqualityStructuralWitness ==
    /\ Returned({"__eq__"})
    /\ call.other.kind = "ref"
    /\ call.other.ref # call.self
    /\ Receiver = Other
    /\ ret = RetVal(BoolV(TRUE))

\* C18: every call Nothing() returns the same object: there is never more
\* than one Nothing instance, and a call made when the instance exists
\* returns it, creates nothing and does not initialise it again.
NothingSingleton ==
    /\ Cardinality({i \in 1..Len(heap) : heap[i].cls = "Nothing"}) <= 1
    /\ Nothing_instance # 0 => heap[Nothing_instance].cls = "Nothing"
    /\ Returned({"Nothing"}) => ret = RetRef(Nothing_instance) /\ Nothing_instance # 0
    /\ (Returned({"Nothing"}) /\ before.inst # 0) =>
          ret = RetRef(before.inst) /\ heap = before.heap

\* Nothing() was called when the instance existed, holding a payload a
\* caller had assigned to it, and returned it as it was.
NothingSingletonWitness ==
    /\ Returned({"Nothing"})
    /\ before.inst # 0
    /\ ret = RetRef(before.inst)
    /\ heap[ret.ref]._value # NoneV

ExpectedClass == IF call.exc_cls = "" THEN "RuntimeError" ELSE call.exc_cls

\* C20: on the wrong variant expect, raise_if_err and expect_err raise an
\* error of the class the caller chose (RuntimeError when it chose none)
\* whose message is the caller's, followed for a Result by ": " and the
\* str() of the payload; on the matching variant they return the payload.
ExpectRaisesCallerError ==
    /\ (Returned({"expect", "raise_if_err"}) /\ Receiver.cls = "Err") =>
          ret = Raise(ExpectedClass, call.msg \o ": " \o str(before, Receiver._value))
    /\ (Returned({"expect_err"}) /\ Receiver.cls = "Ok") =>
          ret = Raise(ExpectedClass, call.msg \o ": " \o str(before, Receiver._value))
    /\ (Returned({"expect"}) /\ Receiver.cls = "Nothing") =>
          ret = Raise(ExpectedClass, call.msg)
    /\ (Returned({"expect", "raise_if_err"}) /\ Receiver.cls = "Ok") =>
          ret = RetVal(Receiver._value)
    /\ (Returned({"expect_err"}) /\ Receiver.cls = "Err") =>
          ret = RetVal(Receiver._value)
    /\ (Returned({"expect"}) /\ Receiver.cls = "Some") =>
          ret = RetVal(Receiver._value)
    /\ Returned({"expect", "raise_if_err", "expect_err"}) => heap = before.heap

\* Err(1).expect(msg) without exc_cls raised RuntimeError("msg: 1").
ExpectRaisesCallerErrorWitness ==
    /\ Returned({"expect"})
    /\ Receiver = Obj("Err", IntV(1))
    /\ call.exc_cls = ""
    /\ ret = Raise("RuntimeError", "msg: 1")

\* C21: unwrap_or never raises: it returns the payload of Ok and Some and
\* the supplied default on Err and Nothing; unwrap_or_else on Err is what
\* f gives on the Err payload, and on Nothing what f gives without
\* arguments (its value, or what it raises); the payload comes back from Ok
\* and Some without f being run.
UnwrapOrDefault ==
    /\ (Returned({"unwrap_or"}) /\ Receiver.cls \in {"Ok", "Some"}) =>
          ret = RetVal(Receiver._value)
    /\ (Returned({"unwrap_or"}) /\ Receiver.cls \in {"Err", "Nothing"}) =>
          ret = RetVal(call.arg)
    /\ (Returned({"unwrap_or_else"}) /\ Receiver.cls = "Err") =>
          /\ ret = CallFn(before, call.fn, Receiver._value).ret
          /\ InvokedOnceWith(call.fn, Receiver._value)
    /\ (Returned({"unwrap_or_else"}) /\ Receiver.cls = "Nothing") =>
          /\ ret = CallFn(before, call.fn, NoArg).ret
          /\ InvokedOnceWith(call.fn, NoArg)
    /\ (Returned({"unwrap_or_else"}) /\ Receiver.cls \in {"Ok", "Some"}) =>
          ret = RetVal(Receiver._value) /\ calls = <<>>
    /\ Returned({"unwrap_or", "unwrap_or_else"}) => heap = before.heap

\* Err(0).unwrap_or(1) returned 1.
UnwrapOrDefaultWitness ==
    /\ Returned({"unwrap_or"})
    /\ Receiver = Obj("Err", IntV(0))
    /\ call.arg = IntV(1)
    /\ ret = RetVal(IntV(1))

\* What the callback of the call made gives on the payload of the receiver.
FnOnPayload == CallFn(before, call.fn, Receiver._value).ret

\* C22: Ok(x).map(f) == Ok(f(x)) and Err(e).map(f) == Err(e);
\* Err(e).map_err(f) == Err(f(e)) and Ok(x).map_err(f) == Ok(x); where f
\* raises, so does the call; the container returned is of the variant of
\* the receiver.
MapKeepsVariant ==
    /\ (Returned({"map"}) /\ Receiver.cls = "Ok") =>
          IF FnOnPayload.kind = "raise" THEN ret = FnOnPayload
          ELSE ret.kind = "ref" /\ EqualsNew(ret.ref, "Ok", FnOnPayload.val)
    /\ (Returned({"map"}) /\ Receiver.cls = "Err") =>
          ret.kind = "ref" /\ EqualsNew(ret.ref, "Err", Receiver._value)
    /\ (Returned({"map_err"}) /\ Receiver.cls = "Err") =>
          IF FnOnPayload.kind = "raise" THEN ret = FnOnPayload
          ELSE ret.kind = "ref" /\ EqualsNew(ret.ref, "Err", FnOnPayload.val)
    /\ (Returned({"map_err"}) /\ Receiver.cls = "Ok") =>
          ret.kind = "ref" /\ EqualsNew(ret.ref, "Ok", Receiver._value)
    /\ (Returned({"map", "map_err"}) /\ WasResult /\ ret.kind = "ref") =>
          heap[ret.ref].cls = Receiver.cls

\* Err(0).map_err(succ) returned a new Err(1).
MapKeepsVariantWitness ==
    /\ Returned({"map_err"})
    /\ Receiver = Obj("Err", IntV(0))
    /\ call.fn = "succ"
    /\ ret.kind = "ref"
    /\ ret.ref # call.self
    /\ heap[ret.ref] = Obj("Err", IntV(1))

\* C23: Option.of(v) returns the Nothing instance exactly when v is None,
\* and for every other v, the falsy ones included, a Some that holds v.
OptionOfNoneOnly ==
    Returned({"of"}) =>
        /\ ret.kind = "ref"
        /\ (heap[ret.ref].cls = "Nothing") = (call.arg = NoneV)
        /\ call.arg = NoneV =>
              ret.ref = Nothing_instance /\ EqualsNew(ret.ref, "Nothing", NoneV)
        /\ call.arg # NoneV =>
              /\ heap[ret.ref] = Obj("Some", call.arg)
              /\ EqualsNew(ret.ref, "Some", call.arg)

\* Option.of('') returned Some('').
OptionOfNoneOnlyWitness ==
    /\ Returned({"of"})
    /\ call.arg = StrV("")
    /\ ret.kind = "ref"
    /\ heap[ret.ref] = Obj("Some", StrV(""))

\* C24: Result(v) and Option(v) raise NotImplementedError and leave no
\* container behind; every container there is is an Ok, an Err, a Some or
\* a Nothing.
BaseNotInstantiable ==
    /\ Returned({"Result", "Option"}) =>
          /\ ret.kind = "raise"
          /\ ret.exc = "NotImplementedError"
          /\ heap = before.heap
          /\ Nothing_instance = before.inst
    /\ \A i \in Ids : heap[i].cls \in {"Ok", "Err", "Some", "Nothing"}

\* Result(1) raised while the program held a container.
BaseNotInstantiableWitness ==
    /\ Returned({"Result"})
    /\ call.arg = IntV(1)
    /\ ret.kind = "raise"
    /\ Len(heap) > 0

(***************************************************************************)
(* Properties of iter() (specification SpecIter).                          *)
(***************************************************************************)
Yields(g) == heap[generators[g].self].cls \in {"Ok", "Some"}

\* C25: a generator made by iter() on Ok or Some yields one element, the
\* payload, and then ends; one made on Err or Nothing ends without an
\* element; every call of iter() returns a new generator whose body has not
\* started, whatever the generators made earlier have yielded, and leaves
\* those as they are.
IterFreshEachCall ==
    /\ \A g \in 1..Len(generators) :
          /\ generators[g].pc = "start" => generators[g].yielded = <<>>
          /\ generators[g].pc = "yielded" => Yields(g) /\ Len(generators[g].yielded) = 1
          /\ generators[g].pc = "done" =>
                Len(generators[g].yielded) = IF Yields(g) THEN 1 ELSE 0
    /\ (Returned({"__next__"}) /\ ret.kind = "val") =>
          /\ ret.val = Receiver._value
          /\ generators[call.other.ref].yielded = <<ret.val>>
    /\ (Returned({"__next__"}) /\ ret.kind = "raise") =>
          /\ ret = Raise("StopIteration", "")
          /\ generators[call.other.ref].pc = "done"
    /\ Returned({"__iter__"}) =>
          /\ ret = GenRef(Len(generators))
          /\ generators[ret.ref] = [self |-> call.self, pc |-> "start", yielded |-> <<>>]

\* iter() on Ok(1) returned a new generator after an earlier one had
\* yielded 1 and ended.
IterFreshEachCallWitness ==
    /\ Returned({"__iter__"})
    /\ heap[call.self] = Obj("Ok", IntV(1))
    /\ Len(generators) = 2
    /\ generators[1] = [self |-> call.self, pc |-> "done", yielded |-> <<IntV(1)>>]
    /\ generators[2].pc = "start"

(***************************************************************************)
(* Properties of concurrent calls of Nothing() (specification SpecThreads).*)
(***************************************************************************)
\* C26: whatever the interleaving of threads that call Nothing() while no
\* instance exists, at most one Nothing object is created and all the
\* callers that have returned hold the same object.
ThreadsShareOneNothing ==
    /\ Cardinality({i \in Ids : heap[i].cls = "Nothing"}) <= 1
    /\ \A t, u \in Threads :
          (At(t, "done") /\ At(u, "done")) => threads[t].ret = threads[u].ret

(***************************************************************************)
(* Further properties of Option.collect (specification SpecCollect).       *)
(***************************************************************************)
\* C27: Option.collect returns Nothing only when an element the iterable
\* yielded is Nothing; when no element is Nothing and the iterable raises,
\* of whatever class, that error reaches the caller.
OptionCollectNothingOnlyFromElement ==
    Returned({"Option.collect"}) =>
        /\ (ret.kind = "ref" /\ heap[ret.ref].cls = "Nothing") => First("Nothing") # 0
        /\ (First("Nothing") = 0 /\ iterator.tail # "StopIteration") =>
              ret = Raise(iterator.tail, "")

\* C28: Option.collect pulls the elements one at a time and in order, and
\* none after the first Nothing: at no time has it pulled more than the
\* elements up to and including the first Nothing, and once it has returned
\* it has pulled exactly those.
OptionCollectStopsAtFirstNothing ==
    (call.name = "Option.collect" /\ First("Nothing") # 0) =>
        /\ iterator.pos <= First("Nothing")
        /\ pc = "returned" => iterator.pos = First("Nothing")

\* Option.collect returned from an iterable with a Some, then Nothing, then
\* one more element.
OptionCollectStopsAtFirstNothingWitness ==
    /\ Returned({"Option.collect"})
    /\ Len(Items) = 3
    /\ First("Nothing") = 2
    /\ iterator.pos = 2
    /\ ret.kind = "ref"
    /\ heap[ret.ref].cls = "Nothing"

(***************************************************************************)
(* Properties of the Immutable mixin (specification SpecImmutable).        *)
(***************************************************************************)
\* C29: once Immutable.__init__ has run on an object, every assignment to
\* an attribute of it, a second run of Immutable.__init__ included, raises
\* TypeError and leaves the attributes as they were; an assignment made
\* before Immutable.__init__ has run succeeds.
ImmutableAfterInit ==
    /\ (call.name \in {"Immutable.__setattr__", "Immutable.__init__"} /\ immutable.ran_before) =>
          /\ ret.kind = "raise"
          /\ ret.exc = "TypeError"
          /\ immutable.attrs = immutable.attrs_before
    /\ (call.name = "Immutable.__setattr__" /\ ~immutable.ran_before) =>
          /\ ret = RetVal(NoneV)
          /\ immutable.attrs = [immutable.attrs_before EXCEPT ![call.msg] = call.arg]

(***************************************************************************)
(* Properties of the equations (specification SpecLaws).                   *)
(***************************************************************************)
\* The two sides gave the same: the same error, or containers that are
\* equal (==).
SameOutcome ==
    IF ret.kind = "raise" \/ call.other.kind = "raise" THEN ret = call.other
    ELSE ret.kind = "ref" /\ call.other.kind = "ref" /\ eq(State, ret.ref, call.other)

\* C30: and_then obeys the monad laws on Results and on Options:
\* Ok(x).and_then(f) == f(x) and Some(x).and_then(f) == f(x);
\* r.and_then(Ok) == r and o.and_then(Some) == o;
\* r.and_then(f).and_then(g) == r.and_then(lambda v: f(v).and_then(g));
\* and flatmap gives what and_then gives.
MonadLaws ==
    Returned({"left_identity", "right_identity", "associativity", "flatmap_and_then"}) =>
        SameOutcome

\* Ok(0).and_then(ok_succ).and_then(Err) and
\* Ok(0).and_then(lambda v: ok_succ(v).and_then(Err)) gave two Err(1).
MonadLawsWitness ==
    /\ Returned({"associativity"})
    /\ Receiver = Obj("Ok", IntV(0))
    /\ call.fn = "ok_succ"
    /\ call.fn2 = "Err"
    /\ ret.kind = "ref"
    /\ call.other.kind = "ref"
    /\ ret.ref # call.other.ref
    /\ heap[ret.ref] = Obj("Err", IntV(1))
    /\ heap[call.other.ref] = Obj("Err", IntV(1))

====
